---- MODULE Spec2Model ----
(***************************************************************************)
(* A model of the club-membership client (leaderboard-app): the view       *)
(* handlers that call the hosted backend, the backend procedures whose SQL *)
(* the repository carries, and the realtime subscriptions of the pages.    *)
(*                                                                         *)
(* Every handler invocation is a record of `inv`; an awaited remote call   *)
(* is a position "<x>_sent" that the backend moves to "<x>_ok" or          *)
(* "<x>_err", after which the handler's continuation runs.                 *)
(***************************************************************************)
EXTENDS Integers, Sequences, FiniteSets

\* ------------------------------------------------------------------ bounds
MaxSubmit == 1         \* submissions in one behaviour of SpecAdjust
MaxOps == 2            \* adjustments in one behaviour of SpecPoints
MaxShopOps == 3        \* purchases, balance reloads and outside adjustments (SpecShop)
MaxBorrowOps == 3      \* list loads and visibility toggles (SpecBorrow)
MaxPageOps == 7        \* mounts, unmounts, user changes, events and loads (SpecPages)
MaxStoreOps == 3       \* the same for the pages of SpecStore
MaxNotifOps == 4       \* effect runs, loads and mark-read clicks (SpecNotif)
MaxUiOps == 3          \* the same, with purchases, adjustments and claim updates (SpecOps)
MaxCartOps == 3        \* additions to the cart (SpecCart)
MaxPanelOps == 3       \* claim-list loads and status updates (SpecPanel)
MaxInFlight == 1       \* operations of SpecOps running at the same time
MaxLoads == 2          \* loads of the equipment list (SpecEquip)
CheapCost == 3         \* points_cost of item i1
DearCost == 9          \* points_cost of item i2

\* --------------------------------------------------------------- constants
Users == {"u1", "u2"}
Sessions == {"s1", "s2"}
Null == "null"
StartBalance == 7      \* the balance of the user who has a row at the start
StartCount == 1        \* the count of the equipment item at the start
MaxUserOps == 3        \* list loads and deletions (SpecUsers)
MaxBoardOps == 2       \* leaderboard loads (SpecBoard)
MaxRows == 2           \* rows of profiles_with_points (SpecBoard)
MaxSubmitOps == 3      \* cart loads, additions and submissions (SpecSubmit)
MaxCountOps == 2       \* count clicks and list refreshes (SpecCount)

\* leaderboard.tsx:37-44
POINT_ADJUSTMENTS == {-10, -5, -1, 1, 5, 10}
\* leaderboard.tsx:1033-1041 (AdminPanel)
pointButtons == {-1, 1, -5, 5, -10, 10, 2}

Abs(x) == IF x < 0 THEN -x ELSE x

VARIABLES
  inv,                 \* handler invocations, in the order they started
  opsLeft,             \* invocations that may still start in this behaviour
  execOrder,           \* invocation ids in the order the backend ran them
  sessUser,            \* per session: "none" | "member" | "admin"
  sessUid,             \* per session: the signed-in user's id
  points,              \* backend relation points: the users with a row -> balance
  points0,             \* the balances at the start (history)
  notifCreated,        \* backend: notifications inserted per user
  loadingPointChange,  \* Leaderboard state, per session
  loading,             \* AdminPanel state, per session: users marked loading
  isAdmin,             \* AdminPanel "Admin Mode" switch, per session
  viteAdminEmail,      \* import.meta.env.VITE_ADMIN_EMAIL
  nextAdminEmail,      \* process.env.NEXT_PUBLIC_ADMIN_EMAIL
  authLoading,         \* useAuth().isLoading
  authEmail,           \* useAuth().user?.email
  location,            \* the path wouter matches
  screen,              \* what the Router renders
  itemCount,           \* backend: equipment_stats.count of the item
  countShown,          \* AdminEquipmentPage, per session: the item's count on screen
  claimRows,           \* backend: the claims submit_cart_claim created, with their items
  cartShown,           \* Cart state `items`, per session: the item ids on screen
  usersTable,          \* backend: the rows of public.users
  usersShown,          \* UserManagement state `users`
  usersLoading,        \* UserManagement state `loading`
  profiles,            \* backend: the rows of profiles_with_points
  board,               \* Leaderboard state `users`: the ranking on screen
  boardLoading         \* Leaderboard state `loading`

  ,userPoints          \* ShopPage state, per session: the displayed balance
  ,is_hidden           \* backend: claim (borrowing) -> hidden?
  ,borrowings          \* BorrowingsPage state, per session: the rows displayed
  ,isUpdating          \* BorrowingCard state, per session: cards being updated
  ,equipment           \* EquipmentPage state, per session: where the list came from
  ,eqLoading           \* EquipmentPage state, per session: loading
  ,remoteTable         \* backend: announcements / equipment_stats -> ids of the rows
  ,localStorage        \* the browser's cache per table: {} (no key) or {the list}
  ,listShown           \* per page: the announcements / equipment lists on screen
  ,mounted             \* per component: on screen?
  ,mountGen            \* per component: how many times it was mounted
  ,channels            \* the live realtime channels
  ,chanSeq             \* effect runs so far
  ,cleanup             \* per component: the effect run its cleanup belongs to (0: none)
  ,intervals           \* per component: running setInterval timers
  ,pending             \* change events in flight to a channel
  ,notifications       \* NotificationsCenter state: the list on screen
  ,homeUserPoints      \* HomePage state: userPoints
  ,borrowedItems       \* HomePage state: borrowedItems
  ,notifTable          \* backend: notifications, in insertion order
  ,claimStatus         \* backend: claim -> status
  ,claimsShown         \* AdminClaimsPanel state: the claims on screen, with status
  ,updating            \* AdminClaimsPanel state: the claim being updated
  ,isLoading           \* NotificationItem state: the items whose button is disabled
  ,cart_items          \* backend relation cart_items, in insertion order

varsPoints == <<points, points0, notifCreated, loadingPointChange, loading, isAdmin>>
varsShop == <<userPoints>>
varsBorrow == <<is_hidden, borrowings, isUpdating>>
varsEquip == <<equipment, eqLoading>>
varsStore == <<remoteTable, localStorage, listShown>>
varsRt == <<mounted, mountGen, channels, chanSeq, cleanup, intervals,
            notifications, homeUserPoints, borrowedItems, isLoading>>
varsPanel == <<claimsShown, updating>>
varsRoute == <<viteAdminEmail, nextAdminEmail, authLoading, authEmail, location, screen>>
varsCount == <<itemCount, countShown>>
varsSubmit == <<claimRows, cartShown>>
varsUsers == <<usersTable, usersShown, usersLoading>>
varsBoard == <<profiles, board, boardLoading>>
varsRest == <<cart_items, varsRoute, varsCount, varsSubmit, varsUsers, varsBoard>>
varsPages == <<varsStore, varsRt, pending, notifTable, claimStatus, varsPanel, varsRest>>
OldViews == <<varsPoints, varsShop, varsBorrow, varsEquip, varsPanel, varsRest>>

\* what the actions of each part leave alone
OutsidePoints == <<varsShop, varsBorrow, varsEquip, varsPages>>
OutsideShop == <<loadingPointChange, loading, isAdmin, notifCreated, varsBorrow, varsEquip,
                 varsPages>>
OutsideBorrow == <<varsPoints, varsShop, varsEquip, varsPages>>
OutsideEquip == <<varsPoints, varsShop, varsBorrow, varsPages>>
varsCore == <<inv, opsLeft, execOrder, sessUser, sessUid>>

\* ---------------------------------------------------------- invocations
Call(fn, target, val, kind, write) ==
  [fn |-> fn, target |-> target, val |-> val, kind |-> kind, write |-> write]

NewInv(op, s, target, val) ==
  [op |-> op, sess |-> s, target |-> target, val |-> val,
   reqTarget |-> target, reqVal |-> val, seen |-> 0, parent |-> 0,
   pc |-> "start", calls |-> <<>>, toast |-> <<>>, ret |-> {},
   caller |-> "", gen |-> 0, via |-> "", chan |-> "", data |-> {}, ans |-> <<>>, src |-> "",
   queue |-> <<>>]

Last(q) == q[Len(q)]
Ids == 1..Len(inv)
CanStart == opsLeft > 0

\* the invocation moves on: new position, calls issued, banners shown
Step(i, pc, newCalls, newToasts) ==
  /\ inv' = [inv EXCEPT ![i].pc = pc,
                        ![i].calls = @ \o newCalls,
                        ![i].toast = @ \o newToasts]
  /\ UNCHANGED opsLeft

Begin(rec, pc, newCalls, newToasts) ==
  /\ inv' = Append(inv, [rec EXCEPT !.pc = pc, !.calls = newCalls, !.toast = newToasts])
  /\ opsLeft' = opsLeft - 1

\* a remote call fails (network error or backend-rejected request): no effect
RemoteFail(i, sent, err) ==
  /\ inv[i].pc = sent
  /\ inv' = [inv EXCEPT ![i].pc = err, ![i].ans = Append(@, "err")]
  /\ UNCHANGED opsLeft

\* ------------------------------------------------- backend: points (SQL)
Balance(p, u) == IF u \in DOMAIN p THEN p[u] ELSE 0

\* INSERT ... ON CONFLICT (user_id) DO UPDATE SET points = points.points + points_to_add
add_points_overwrite(p, user_uuid, points_to_add) ==
  [x \in DOMAIN p \cup {user_uuid} |-> IF x = user_uuid THEN points_to_add ELSE p[x]]

add_points_to_user(p, user_uuid, points_to_add) ==
  [x \in DOMAIN p \cup {user_uuid} |->
     IF x # user_uuid THEN p[x]
     ELSE IF x \in DOMAIN p THEN p[x] + points_to_add ELSE points_to_add]

\* ------------------------------------------- Leaderboard.addPoints
addPointsArgsAbs(userId, pointsToAdd) ==
  Call("add_points_to_user", userId, Abs(pointsToAdd), "", TRUE)

\* the arguments of supabase.rpc('add_points_to_user', {...})
addPointsArgs(userId, pointsToAdd) ==
  Call("add_points_to_user", userId, pointsToAdd, "", TRUE)

createNotificationArgsSuccess(userId, pointsToAdd) ==
  Call("create_notification", userId, Abs(pointsToAdd), "success", TRUE)

\* the arguments of supabase.rpc('create_notification', {...})
createNotificationArgs(userId, pointsToAdd) ==
  Call("create_notification", userId, Abs(pointsToAdd),
       IF pointsToAdd > 0 THEN "success" ELSE "error", TRUE)

fetchUsersCall == Call("select profiles_with_points", Null, 0, "", FALSE)

addPoints_Start(s, u, v) ==
  /\ CanStart
  /\ loadingPointChange[s] # u            \* the row's buttons are not disabled
  /\ IF sessUser[s] # "admin"
       THEN /\ Begin(NewInv("addPoints", s, u, v), "done", <<>>, <<>>)
            /\ UNCHANGED loadingPointChange
       ELSE /\ loadingPointChange' = [loadingPointChange EXCEPT ![s] = u]
            /\ Begin(NewInv("addPoints", s, u, v), "add_sent",
                     <<addPointsArgs(u, v)>>, <<>>)
  /\ UNCHANGED <<execOrder, sessUser, sessUid, points, points0, notifCreated, loading, isAdmin>>
  /\ UNCHANGED OutsidePoints

\* the backend runs add_points_to_user with the arguments of the call
Remote_add_points_to_user(i) ==
  /\ inv[i].pc = "add_sent"
  /\ LET c == Last(inv[i].calls)
     IN points' = add_points_to_user(points, c.target, c.val)
  /\ Step(i, "add_ok", <<>>, <<>>)
  /\ execOrder' = Append(execOrder, i)
  /\ UNCHANGED <<sessUser, sessUid, points0, notifCreated, loadingPointChange, loading, isAdmin>>
  /\ UNCHANGED OutsidePoints

Remote_add_points_fails(i) ==
  /\ RemoteFail(i, "add_sent", "add_err")
  /\ UNCHANGED <<execOrder, sessUser, sessUid>>
  /\ UNCHANGED varsPoints
  /\ UNCHANGED OutsidePoints

addPoints_AddFailed(i) ==
  /\ inv[i].op = "addPoints"
  /\ inv[i].pc = "add_err"
  /\ Step(i, "done", <<>>, <<"error">>)
  /\ loadingPointChange' = [loadingPointChange EXCEPT ![inv[i].sess] = Null]
  /\ UNCHANGED <<execOrder, sessUser, sessUid, points, points0, notifCreated, loading, isAdmin>>
  /\ UNCHANGED OutsidePoints

addPoints_AfterAdd(i) ==
  /\ inv[i].op = "addPoints"
  /\ inv[i].pc = "add_ok"
  /\ Step(i, "notif_sent", <<createNotificationArgs(inv[i].target, inv[i].val)>>, <<>>)
  /\ UNCHANGED <<execOrder, sessUser, sessUid>>
  /\ UNCHANGED varsPoints
  /\ UNCHANGED OutsidePoints

Remote_create_notification(i) ==
  /\ inv[i].pc = "notif_sent"
  /\ LET c == Last(inv[i].calls)
     IN notifCreated' = [notifCreated EXCEPT ![c.target] = @ + 1]
  /\ Step(i, "notif_ok", <<>>, <<>>)
  /\ UNCHANGED <<execOrder, sessUser, sessUid, points, points0, loadingPointChange, loading, isAdmin>>
  /\ UNCHANGED OutsidePoints

Remote_create_notification_fails(i) ==
  /\ RemoteFail(i, "notif_sent", "notif_err")
  /\ UNCHANGED <<execOrder, sessUser, sessUid>>
  /\ UNCHANGED varsPoints
  /\ UNCHANGED OutsidePoints

\* notifError is only logged; fetchUsers() is started, the Success banner shown
addPoints_AfterNotif(i) ==
  /\ inv[i].op = "addPoints"
  /\ inv[i].pc \in {"notif_ok", "notif_err"}
  /\ Step(i, "done", <<fetchUsersCall>>, <<"success">>)
  /\ loadingPointChange' = [loadingPointChange EXCEPT ![inv[i].sess] = Null]
  /\ UNCHANGED <<execOrder, sessUser, sessUid, points, points0, notifCreated, loading, isAdmin>>
  /\ UNCHANGED OutsidePoints

\* ------------------------------------------- AdminPanel.handlePointChange
handlePointChangeArgs(userId, pointChange) ==
  Call("add_points_to_user", userId, pointChange, "", TRUE)

\* the Admin Mode switch is rendered for the authorized admin only
AdminPanel_setIsAdmin(s) ==
  /\ sessUser[s] = "admin"
  /\ isAdmin' = [isAdmin EXCEPT ![s] = ~@]
  /\ UNCHANGED varsCore
  /\ UNCHANGED <<points, points0, notifCreated, loadingPointChange, loading>>
  /\ UNCHANGED OutsidePoints

handlePointChange_Start(s, u, v) ==
  /\ CanStart
  /\ u \notin loading[s]
  /\ IF ~isAdmin[s] \/ sessUser[s] # "admin"
       THEN /\ Begin(NewInv("handlePointChange", s, u, v), "done", <<>>, <<>>)
            /\ UNCHANGED loading
       ELSE /\ loading' = [loading EXCEPT ![s] = @ \cup {u}]
            /\ Begin(NewInv("handlePointChange", s, u, v), "add_sent",
                     <<handlePointChangeArgs(u, v)>>, <<>>)
  /\ UNCHANGED <<execOrder, sessUser, sessUid, points, points0, notifCreated, loadingPointChange, isAdmin>>
  /\ UNCHANGED OutsidePoints

\* toast, onPointsUpdated() (the parent's refresh), finally loading[userId] = false
handlePointChange_AfterAdd(i) ==
  /\ inv[i].op = "handlePointChange"
  /\ inv[i].pc \in {"add_ok", "add_err"}
  /\ IF inv[i].pc = "add_ok"
       THEN Step(i, "done", <<fetchUsersCall>>, <<"success">>)
       ELSE Step(i, "done", <<>>, <<"error">>)
  /\ loading' = [loading EXCEPT ![inv[i].sess] = @ \ {inv[i].target}]
  /\ UNCHANGED <<execOrder, sessUser, sessUid, points, points0, notifCreated, loadingPointChange, isAdmin>>
  /\ UNCHANGED OutsidePoints

\* ------------------------------------------------------------ ShopPage
Items == {"i1", "i2"}
\* shop_items.points_cost (CHECK points_cost > 0) of the two catalogue entries
points_cost == [it \in Items |-> IF it = "i1" THEN CheapCost ELSE DearCost]

InsufficientPointsLoose(shown, cost) == shown < 0

\* if (userPoints < item.points_cost)
InsufficientPoints(shown, cost) == shown < cost

purchaseArgs(item, uid) == Call("purchase_shop_item", uid, 1, item, TRUE)
fetchUserPointsArgs(uid) == Call("fetch_user_points", uid, 0, "", FALSE)

\* fetchUserPoints() as started by a handler or an effect of session s
SpawnFetch(s, parent) ==
  [NewInv("fetchUserPoints", s, sessUid[s], 0) EXCEPT
     !.pc = "fetch_sent", !.parent = parent,
     !.calls = <<fetchUserPointsArgs(sessUid[s])>>]

handlePurchase_Start(s, item) ==
  /\ CanStart
  /\ LET rec == [NewInv("handlePurchase", s, item, points_cost[item])
                   EXCEPT !.seen = userPoints[s]]
     IN IF sessUser[s] = "none"
          THEN Begin(rec, "done", <<>>, <<"error">>)
          ELSE IF InsufficientPoints(userPoints[s], points_cost[item])
                 THEN Begin(rec, "done", <<>>, <<"error">>)
                 ELSE Begin(rec, "buy_sent", <<purchaseArgs(item, sessUid[s])>>, <<>>)
  /\ UNCHANGED <<execOrder, sessUser, sessUid, points, points0, userPoints>>
  /\ UNCHANGED OutsideShop

\* purchase_shop_item: 'Not enough points' unless the user's row holds the total
Remote_purchase_shop_item(i) ==
  /\ inv[i].pc = "buy_sent"
  /\ LET c == Last(inv[i].calls)
         total_points == points_cost[c.kind] * c.val
     IN IF c.target \notin DOMAIN points \/ points[c.target] < total_points
          THEN /\ Step(i, "buy_err", <<>>, <<>>)
               /\ UNCHANGED <<points, execOrder>>
          ELSE /\ points' = [points EXCEPT ![c.target] = @ - total_points]
               /\ Step(i, "buy_ok", <<>>, <<>>)
               /\ execOrder' = Append(execOrder, i)
  /\ UNCHANGED <<sessUser, sessUid, points0, userPoints>>
  /\ UNCHANGED OutsideShop

Remote_purchase_fails(i) ==
  /\ RemoteFail(i, "buy_sent", "buy_err")
  /\ UNCHANGED <<execOrder, sessUser, sessUid, points, points0, userPoints>>
  /\ UNCHANGED OutsideShop

\* success: banner, then fetchUserPoints() (not awaited); failure: error banner
handlePurchase_After(i) ==
  /\ inv[i].op = "handlePurchase"
  /\ inv[i].pc \in {"buy_ok", "buy_err"}
  /\ IF inv[i].pc = "buy_ok"
       THEN /\ inv' = Append([inv EXCEPT ![i].pc = "done", ![i].toast = @ \o <<"success">>],
                             SpawnFetch(inv[i].sess, i))
            /\ UNCHANGED opsLeft
       ELSE Step(i, "done", <<>>, <<"error">>)
  /\ UNCHANGED <<execOrder, sessUser, sessUid, points, points0, userPoints>>
  /\ UNCHANGED OutsideShop

\* fetchUserPoints() run by the [user] effect or by a realtime points event
ShopPage_fetchUserPoints(s) ==
  /\ CanStart
  /\ sessUser[s] # "none"
  /\ inv' = Append(inv, SpawnFetch(s, 0))
  /\ opsLeft' = opsLeft - 1
  /\ UNCHANGED <<execOrder, sessUser, sessUid, points, points0, userPoints>>
  /\ UNCHANGED OutsideShop

\* fetch_user_points: SELECT points INTO user_points (NULL when there is no row)
Remote_fetch_user_points(i) ==
  /\ inv[i].pc = "fetch_sent"
  /\ LET c == Last(inv[i].calls)
     IN inv' = [inv EXCEPT ![i].pc = "fetch_ok",
                           ![i].ret = IF c.target \in DOMAIN points
                                        THEN {points[c.target]} ELSE {}]
  /\ UNCHANGED <<opsLeft, execOrder, sessUser, sessUid, points, points0, userPoints>>
  /\ UNCHANGED OutsideShop

Remote_fetch_user_points_fails(i) ==
  /\ RemoteFail(i, "fetch_sent", "fetch_err")
  /\ UNCHANGED <<execOrder, sessUser, sessUid, points, points0, userPoints>>
  /\ UNCHANGED OutsideShop

\* setUserPoints(data || 0), or the "Failed to load points balance" banner
ShopPage_fetchUserPoints_After(i) ==
  /\ inv[i].op = "fetchUserPoints"
  /\ inv[i].pc \in {"fetch_ok", "fetch_err"}
  /\ IF inv[i].pc = "fetch_ok"
       THEN /\ userPoints' = [userPoints EXCEPT ![inv[i].sess] =
                                IF inv[i].ret = {} THEN 0 ELSE CHOOSE x \in inv[i].ret : TRUE]
            /\ Step(i, "done", <<>>, <<>>)
       ELSE /\ Step(i, "done", <<>>, <<"error">>)
            /\ UNCHANGED userPoints
  /\ UNCHANGED <<execOrder, sessUser, sessUid, points, points0>>
  /\ UNCHANGED OutsideShop

\* another actor (an administrator) adjusts a balance in the backend
Backend_pointsAdjusted(u, v) ==
  /\ CanStart
  /\ opsLeft' = opsLeft - 1
  /\ points' = add_points_to_user(points, u, v)
  /\ UNCHANGED <<inv, execOrder, sessUser, sessUid, points0, userPoints>>
  /\ UNCHANGED OutsideShop

\* ------------------------------------------- BorrowingsPage, BorrowingCard
Borrowings == {"b1", "b2"}

\* the rows a read of admin_borrowings / get_user_borrowings returns
BorrowingsRows(h) == {<<b, h[b]>> : b \in Borrowings}

\* toggle_borrowing_visibility: flips is_hidden and returns the new value
toggle_borrowing_visibility(h, claim_id) == [h EXCEPT ![claim_id] = ~@]

Displayed(s, b) == \E x \in borrowings[s] : x[1] = b
\* borrowing.is_hidden of the card of b
DisplayedHidden(s, b) == <<b, TRUE>> \in borrowings[s]

fetchBorrowingsCall == Call("select borrowings", Null, 0, "", FALSE)

SpawnFetchBorrowings(s, parent) ==
  [NewInv("fetchBorrowings", s, Null, 0) EXCEPT
     !.pc = "list_sent", !.parent = parent, !.calls = <<fetchBorrowingsCall>>]

\* useEffect(() => { fetchBorrowings(); }, [user]);  if (!user) return;
BorrowingsPage_fetchBorrowings(s) ==
  /\ CanStart
  /\ IF sessUser[s] = "none"
       THEN Begin(NewInv("fetchBorrowings", s, Null, 0), "done", <<>>, <<>>)
       ELSE /\ inv' = Append(inv, SpawnFetchBorrowings(s, 0))
            /\ opsLeft' = opsLeft - 1
  /\ UNCHANGED <<execOrder, sessUser, sessUid, is_hidden, borrowings, isUpdating>>
  /\ UNCHANGED OutsideBorrow

Remote_borrowings_read(i) ==
  /\ inv[i].pc = "list_sent"
  /\ inv' = [inv EXCEPT ![i].pc = "list_ok", ![i].ret = BorrowingsRows(is_hidden)]
  /\ execOrder' = Append(execOrder, i)
  /\ UNCHANGED <<opsLeft, sessUser, sessUid, is_hidden, borrowings, isUpdating>>
  /\ UNCHANGED OutsideBorrow

Remote_borrowings_read_fails(i) ==
  /\ RemoteFail(i, "list_sent", "list_err")
  /\ UNCHANGED <<execOrder, sessUser, sessUid, is_hidden, borrowings, isUpdating>>
  /\ UNCHANGED OutsideBorrow

\* setBorrowings(data || []), or the error banner
fetchBorrowings_After(i) ==
  /\ inv[i].op = "fetchBorrowings"
  /\ inv[i].pc \in {"list_ok", "list_err"}
  /\ IF inv[i].pc = "list_ok"
       THEN /\ borrowings' = [borrowings EXCEPT ![inv[i].sess] = inv[i].ret]
            /\ Step(i, "done", <<>>, <<>>)
       ELSE /\ Step(i, "done", <<>>, <<"error">>)
            /\ UNCHANGED borrowings
  /\ UNCHANGED <<execOrder, sessUser, sessUid, is_hidden, isUpdating>>
  /\ UNCHANGED OutsideBorrow

toggleArgs(claim_id) == Call("toggle_borrowing_visibility", claim_id, 0, "", TRUE)

\* the card's button: onClick={toggleVisibility} disabled={isUpdating}
toggleVisibility_Start(s, b) ==
  /\ CanStart
  /\ Displayed(s, b)
  /\ b \notin isUpdating[s]
  /\ isUpdating' = [isUpdating EXCEPT ![s] = @ \cup {b}]
  /\ Begin(NewInv("toggleVisibility", s, b, 0), "toggle_sent", <<toggleArgs(b)>>, <<>>)
  /\ UNCHANGED <<execOrder, sessUser, sessUid, is_hidden, borrowings>>
  /\ UNCHANGED OutsideBorrow

Remote_toggle_borrowing_visibility(i) ==
  /\ inv[i].pc = "toggle_sent"
  /\ LET c == Last(inv[i].calls)
         h == toggle_borrowing_visibility(is_hidden, c.target)
     IN /\ is_hidden' = h
        /\ inv' = [inv EXCEPT ![i].pc = "toggle_ok", ![i].ret = {h[c.target]}]
  /\ execOrder' = Append(execOrder, i)
  /\ UNCHANGED <<opsLeft, sessUser, sessUid, borrowings, isUpdating>>
  /\ UNCHANGED OutsideBorrow

Remote_toggle_fails(i) ==
  /\ RemoteFail(i, "toggle_sent", "toggle_err")
  /\ UNCHANGED <<execOrder, sessUser, sessUid, is_hidden, borrowings, isUpdating>>
  /\ UNCHANGED OutsideBorrow

\* the banner text of a successful toggle: `Borrowing is now ${data ? 'hidden' : 'visible'}`
ToggleBannerSwapped(data) == IF data THEN "now visible" ELSE "now hidden"

ToggleBanner(data) == IF data THEN "now hidden" ELSE "now visible"

\* success: banner, onVisibilityChange() (fetchBorrowings, not awaited);
\* failure: error banner; finally setIsUpdating(false)
toggleVisibility_After(i) ==
  /\ inv[i].op = "toggleVisibility"
  /\ inv[i].pc \in {"toggle_ok", "toggle_err"}
  /\ IF inv[i].pc = "toggle_ok"
       THEN /\ inv' = Append([inv EXCEPT ![i].pc = "done",
                                         ![i].toast = @ \o <<ToggleBanner(TRUE \in inv[i].ret)>>],
                             SpawnFetchBorrowings(inv[i].sess, i))
            /\ UNCHANGED opsLeft
       ELSE Step(i, "done", <<>>, <<"error">>)
  /\ isUpdating' = [isUpdating EXCEPT ![inv[i].sess] = @ \ {inv[i].target}]
  /\ UNCHANGED <<execOrder, sessUser, sessUid, is_hidden, borrowings>>
  /\ UNCHANGED OutsideBorrow

\* ------------------------------------------- EquipmentPage.fetchEquipment
\* the call each stage of the chain issues
EquipmentCall(stage) ==
  CASE stage \in {"primary", "retry", "retry_empty"} ->
         Call("select equipment_stats", Null, 0, stage, FALSE)
    [] stage = "v2" -> Call("load_equipment_for_client_v2", Null, 0, stage, FALSE)
    [] stage = "simple" -> Call("simple_load_equipment", Null, 0, stage, FALSE)
    [] stage \in {"fix", "fix_empty"} -> Call("fix_equipment_loading", Null, 0, stage, TRUE)

\* what the backend may answer: an error, null, no rows, rows, or (for
\* simple_load_equipment, a JSON string) text that does not parse
EquipmentResults(stage) ==
  CASE stage \in {"fix", "fix_empty"} -> {"err", "ok"}
    [] stage = "simple" -> {"err", "null", "empty", "rows", "garbage"}
    [] OTHER -> {"err", "null", "empty", "rows"}

Go(next) == [next |-> next, set |-> FALSE, toast |-> FALSE]
Stop(set, toast) == [next |-> "stop", set |-> set, toast |-> toast]

fetchEquipmentStepRetryV2(stage, r) ==
  CASE stage = "primary" -> IF r = "err" THEN Go("v2")
                            ELSE IF r = "rows" THEN Stop(TRUE, FALSE) ELSE Go("fix_empty")
    [] stage = "v2" -> IF r = "err" THEN Go("simple")
                       ELSE IF r = "null" THEN Go("simple") ELSE Stop(TRUE, FALSE)
    [] stage = "simple" -> IF r = "err" THEN Go("fix")
                           ELSE IF r = "rows" THEN Stop(TRUE, FALSE) ELSE Stop(FALSE, TRUE)
    [] stage = "fix" -> IF r = "err" THEN Stop(FALSE, TRUE) ELSE Go("retry")
    [] stage = "retry" -> IF r = "rows" THEN Stop(TRUE, FALSE) ELSE Stop(FALSE, TRUE)
    [] stage = "fix_empty" -> IF r = "err" THEN Stop(FALSE, FALSE) ELSE Go("retry_empty")
    [] stage = "retry_empty" -> IF r = "rows" THEN Stop(TRUE, FALSE) ELSE Stop(FALSE, FALSE)

\* the control flow of fetchEquipment after the answer r to the call of `stage`
fetchEquipmentStep(stage, r) ==
  CASE stage = "primary" -> IF r = "err" THEN Go("v2")
                            ELSE IF r = "rows" THEN Stop(TRUE, FALSE) ELSE Go("fix_empty")
    [] stage = "v2" -> IF r = "err" THEN Go("simple")
                       ELSE IF r = "null" THEN Stop(FALSE, TRUE) ELSE Stop(TRUE, FALSE)
    [] stage = "simple" -> IF r = "err" THEN Go("fix")
                           ELSE IF r = "rows" THEN Stop(TRUE, FALSE) ELSE Stop(FALSE, TRUE)
    [] stage = "fix" -> IF r = "err" THEN Stop(FALSE, TRUE) ELSE Go("retry")
    [] stage = "retry" -> IF r = "rows" THEN Stop(TRUE, FALSE) ELSE Stop(FALSE, TRUE)
    [] stage = "fix_empty" -> IF r = "err" THEN Stop(FALSE, FALSE) ELSE Go("retry_empty")
    [] stage = "retry_empty" -> IF r = "rows" THEN Stop(TRUE, FALSE) ELSE Stop(FALSE, FALSE)

\* the mount effect and the 30 s interval both call fetchEquipment()
fetchEquipment_Start(s) ==
  /\ CanStart
  /\ eqLoading' = [eqLoading EXCEPT ![s] = TRUE]
  /\ inv' = Append(inv, [NewInv("fetchEquipment", s, "primary", 0) EXCEPT
                          !.pc = "eq_sent", !.calls = <<EquipmentCall("primary")>>,
                          !.ret = <<>>])
  /\ opsLeft' = opsLeft - 1
  /\ UNCHANGED <<execOrder, sessUser, sessUid, equipment>>
  /\ UNCHANGED OutsideEquip

Remote_equipment_answer(i, r) ==
  /\ inv[i].pc = "eq_sent"
  /\ r \in EquipmentResults(inv[i].target)
  /\ inv' = [inv EXCEPT ![i].pc = "eq_back", ![i].ret = Append(@, r)]
  /\ UNCHANGED <<opsLeft, execOrder, sessUser, sessUid, equipment, eqLoading>>
  /\ UNCHANGED OutsideEquip

fetchEquipment_Continue(i) ==
  /\ inv[i].op = "fetchEquipment"
  /\ inv[i].pc = "eq_back"
  /\ LET st == fetchEquipmentStep(inv[i].target, Last(inv[i].ret))
         s == inv[i].sess
     IN IF st.next # "stop"
          THEN /\ inv' = [inv EXCEPT ![i].pc = "eq_sent", ![i].target = st.next,
                                     ![i].calls = Append(@, EquipmentCall(st.next))]
               /\ UNCHANGED <<equipment, eqLoading>>
          ELSE /\ inv' = [inv EXCEPT ![i].pc = "done",
                                     ![i].toast = IF st.toast THEN <<"error">> ELSE <<>>]
               /\ equipment' = IF st.set
                                 THEN [equipment EXCEPT ![s] = <<i, inv[i].target>>]
                                 ELSE equipment
               /\ eqLoading' = [eqLoading EXCEPT ![s] = FALSE]
  /\ UNCHANGED <<opsLeft, execOrder, sessUser, sessUid>>
  /\ UNCHANGED OutsideEquip

\* ------------------------------------------------ the pages of one browser
Browser == "s1"
Components == {"HomePage", "NotificationsCenter", "AnnouncementsConfigPage"}
Kinds == {"announcements", "equipment_stats"}
Rows == {"1", "t1"}
\* storage.ts:26-45 and 47-90 (the ids of the default rows)
DEFAULT_ANNOUNCEMENTS == {"1"}
DEFAULT_EQUIPMENT == {"1"}
Notifs == {"n1", "n2"}
\* the ids of the rows update_claim_status_with_notification inserts
NewNotifs == {"n3", "n4", "n5", "n6"}
Claims == {"c1", "c2"}
ClaimUser == [c \in Claims |-> IF c = "c1" THEN "u1" ELSE "u2"]

\* useAuth().user of a session
User(s) == IF sessUser[s] = "none" THEN Null ELSE sessUid[s]
Unwrap(w) == CHOOSE x \in w : TRUE
Reverse(q) == [k \in 1..Len(q) |-> q[Len(q) + 1 - k]]

\* stored ? JSON.parse(stored) : DEFAULT_...
LocalData(kind) ==
  IF localStorage[kind] # {} THEN Unwrap(localStorage[kind])
  ELSE IF kind = "announcements" THEN DEFAULT_ANNOUNCEMENTS ELSE DEFAULT_EQUIPMENT

\* the component instance that started invocation i is still on screen
StillMounted(i) == mounted[inv[i].caller] /\ mountGen[inv[i].caller] = inv[i].gen

Loader(op, target, caller, gen, via, chan, run, pc, call) ==
  [NewInv(op, Browser, target, run) EXCEPT
     !.caller = caller, !.gen = gen, !.via = via, !.chan = chan,
     !.pc = pc, !.calls = <<call>>]

\* ------------------------------------------- realtime channels and events
Chan(owner, name, table, filter, run) ==
  [owner |-> owner, name |-> name, table |-> table, filter |-> filter, run |-> run]

FilterOf(user) == IF user = Null THEN "undefined" ELSE user

\* the channels one run of a component's effect opens
Opened(c, user, run) ==
  CASE c = "HomePage" ->
         {Chan(c, "announcements-changes", "announcements", "", run),
          Chan(c, "equipment-changes", "equipment_stats", "", run),
          Chan(c, "points-changes", "points", FilterOf(user), run),
          Chan(c, "claims-changes", "claims", FilterOf(user), run)}
    [] c = "NotificationsCenter" ->
         IF user # Null THEN {Chan(c, "notifications_changes", "notifications", user, run)}
         ELSE {}
    [] c = "AnnouncementsConfigPage" ->
         {Chan(c, "admin-announcements-changes", "announcements", "", run)}

CleanupNamesLeaky(c) ==
  CASE c = "HomePage" -> {"announcements-changes", "equipment-changes", "points-changes"}
    [] c = "NotificationsCenter" -> {"notifications_changes"}
    [] c = "AnnouncementsConfigPage" -> {"admin-announcements-changes"}

\* the channels the cleanup function of a component's effect removes
CleanupNames(c) ==
  CASE c = "HomePage" -> {"announcements-changes", "equipment-changes",
                          "points-changes", "claims-changes"}
    [] c = "NotificationsCenter" -> {"notifications_changes"}
    [] c = "AnnouncementsConfigPage" -> {"admin-announcements-changes"}

Removed(c) ==
  {ch \in channels : ch.owner = c /\ ch.run = cleanup[c] /\ ch.name \in CleanupNames(c)}

Event(ch, row) ==
  [owner |-> ch.owner, name |-> ch.name, run |-> ch.run, table |-> ch.table, row |-> row]
ChanOf(e) == {ch \in channels : ch.owner = e.owner /\ ch.name = e.name /\ ch.run = e.run}

\* postgres_changes: one event for every live channel on the table whose
\* filter matches the changed row
EventsFor(table, user, row) ==
  {Event(ch, row) : ch \in {c \in channels : c.table = table /\ c.filter \in {"", user}}}

\* an event still in flight to a removed channel is never dispatched
Undelivered(removed) ==
  {e \in pending : \A ch \in removed :
                     ~(ch.owner = e.owner /\ ch.name = e.name /\ ch.run = e.run)}

\* ------------------------------------------- the loaders the effects call
selectRowsCall(kind) == Call("select *", kind, 0, "", FALSE)

GetRec(kind, caller, gen, via, chan, run) ==
  Loader(IF kind = "announcements" THEN "getAnnouncements" ELSE "getEquipmentAsync",
         kind, caller, gen, via, chan, run, "read_sent", selectRowsCall(kind))

PointsRec(user, gen, via, chan, run) ==
  Loader("HomePage.fetchUserPoints", user, "HomePage", gen, via, chan, run,
         "fetch_sent", fetchUserPointsArgs(user))

ClaimsRec(user, gen, via, chan, run) ==
  Loader("fetchBorrowedItems", user, "HomePage", gen, via, chan, run,
         "claims_sent", Call("select claims_with_metadata", user, 0, "approved", FALSE))

NotifsRec(user, gen, run) ==
  Loader("fetchNotifications", user, "NotificationsCenter", gen, "effect", "", run,
         "notifs_sent", Call("select notifications", user, 0, "", FALSE))

\* what one run of a component's effect starts
Loaders(c, user, gen, run) ==
  CASE c = "HomePage" ->
         <<GetRec("announcements", c, gen, "effect", "", run),
           GetRec("equipment_stats", c, gen, "effect", "", run)>>
         \o (IF user # Null
               THEN <<PointsRec(user, gen, "effect", "", run),
                      ClaimsRec(user, gen, "effect", "", run)>>
               ELSE <<>>)
    [] c = "NotificationsCenter" ->
         IF user # Null THEN <<NotifsRec(user, gen, run)>> ELSE <<>>
    [] c = "AnnouncementsConfigPage" ->
         <<GetRec("announcements", c, gen, "effect", "", run)>>

\* an effect run spends one unit, and one per load it starts
Cost(ls) == 1 + Len(ls)

Registered(c, user, run) == IF Opened(c, user, run) = {} THEN 0 ELSE run

\* ------------------------------------------- mount, unmount, user change
\* the Router mounts AnnouncementsConfigPage behind the adminOnly guard,
\* HomePage on a plain route
Mount(c) ==
  /\ ~mounted[c]
  /\ c = "AnnouncementsConfigPage" => sessUser[Browser] = "admin"
  /\ LET user == User(Browser)
         run == chanSeq + 1
         gen == mountGen[c] + 1
         ls == Loaders(c, user, gen, run)
     IN /\ opsLeft >= Cost(ls)
        /\ opsLeft' = opsLeft - Cost(ls)
        /\ inv' = inv \o ls
        /\ channels' = channels \cup Opened(c, user, run)
        /\ cleanup' = [cleanup EXCEPT ![c] = Registered(c, user, run)]
        /\ chanSeq' = run
        /\ mountGen' = [mountGen EXCEPT ![c] = gen]
  /\ mounted' = [mounted EXCEPT ![c] = TRUE]
  /\ intervals' = [intervals EXCEPT ![c] = IF c = "HomePage" THEN @ + 1 ELSE @]
  /\ listShown' = [listShown EXCEPT ![c] = [k \in Kinds |-> {}]]
  /\ notifications' = IF c = "NotificationsCenter" THEN <<>> ELSE notifications
  /\ isLoading' = IF c = "NotificationsCenter" THEN {} ELSE isLoading
  /\ homeUserPoints' = IF c = "HomePage" THEN 0 ELSE homeUserPoints
  /\ borrowedItems' = IF c = "HomePage" THEN 0 ELSE borrowedItems
  /\ UNCHANGED <<execOrder, sessUser, sessUid, pending>>
  /\ UNCHANGED <<remoteTable, localStorage, notifTable, claimStatus, OldViews>>

Unmount(c) ==
  /\ mounted[c]
  /\ CanStart
  /\ opsLeft' = opsLeft - 1
  /\ mounted' = [mounted EXCEPT ![c] = FALSE]
  /\ channels' = channels \ Removed(c)
  /\ pending' = Undelivered(Removed(c))
  /\ cleanup' = [cleanup EXCEPT ![c] = 0]
  /\ intervals' = [intervals EXCEPT ![c] = IF c = "HomePage" THEN @ - 1 ELSE @]
  /\ UNCHANGED <<inv, execOrder, sessUser, sessUid, mountGen, chanSeq, listShown,
                 notifications, homeUserPoints, borrowedItems, isLoading>>
  /\ UNCHANGED <<remoteTable, localStorage, notifTable, claimStatus, OldViews>>

\* useAuth() yields another user: every mounted effect with [user] in its
\* dependencies is cleaned up and run again; the adminOnly guard replaces its
\* page by a redirect unless the new user is the administrator
AuthChange(k, u) ==
  /\ <<k, u>> # <<sessUser[Browser], sessUid[Browser]>>
  /\ k = "none" => u = sessUid[Browser]
  /\ sessUser' = [sessUser EXCEPT ![Browser] = k]
  /\ sessUid' = [sessUid EXCEPT ![Browser] = u]
  /\ LET user == IF k = "none" THEN Null ELSE u
         run == chanSeq + 1
         cs == {c \in {"HomePage", "NotificationsCenter"} : mounted[c]}
         ls == (IF "HomePage" \in cs
                  THEN Loaders("HomePage", user, mountGen["HomePage"], run) ELSE <<>>)
               \o (IF "NotificationsCenter" \in cs
                     THEN Loaders("NotificationsCenter", user,
                                  mountGen["NotificationsCenter"], run)
                     ELSE <<>>)
         gone == {c \in {"AnnouncementsConfigPage"} : mounted[c] /\ k # "admin"}
         removed == UNION {Removed(c) : c \in cs \cup gone}
     IN /\ opsLeft >= Cost(ls)
        /\ opsLeft' = opsLeft - Cost(ls)
        /\ inv' = inv \o ls
        /\ channels' = (channels \ removed) \cup UNION {Opened(c, user, run) : c \in cs}
        /\ pending' = Undelivered(removed)
        /\ cleanup' = [c \in Components |->
                         IF c \in cs THEN Registered(c, user, run)
                         ELSE IF c \in gone THEN 0 ELSE cleanup[c]]
        /\ mounted' = [c \in Components |-> mounted[c] /\ c \notin gone]
        /\ intervals' = [c \in Components |->
                           IF c = "HomePage" /\ c \in cs
                             THEN (intervals[c] - 1) + 1 ELSE intervals[c]]
        /\ chanSeq' = run
  /\ UNCHANGED <<execOrder, mountGen, listShown, notifications,
                 homeUserPoints, borrowedItems, isLoading>>
  /\ UNCHANGED <<remoteTable, localStorage, notifTable, claimStatus, OldViews>>

\* ------------------------------------------- the callbacks of the channels
CallbackCrossed(e) ==
  LET gen == mountGen[e.owner]
      ch == Unwrap(ChanOf(e))
  IN CASE e.name \in {"announcements-changes", "admin-announcements-changes"} ->
            GetRec("announcements", e.owner, gen, "event", e.name, e.run)
       [] e.name = "equipment-changes" ->
            GetRec("announcements", e.owner, gen, "event", e.name, e.run)
       [] e.name = "points-changes" -> PointsRec(ch.filter, gen, "event", e.name, e.run)
       [] e.name = "claims-changes" -> ClaimsRec(ch.filter, gen, "event", e.name, e.run)
       [] e.name = "notifications_changes" ->
            [NewInv("NotificationsCenter.onInsert", Browser, e.row, e.run) EXCEPT
               !.caller = e.owner, !.gen = gen, !.via = "event", !.chan = e.name,
               !.pc = "done", !.toast = <<"info">>]

\* the invocation a channel's callback starts when an event is dispatched to it
Callback(e) ==
  LET gen == mountGen[e.owner]
      ch == Unwrap(ChanOf(e))
  IN CASE e.name \in {"announcements-changes", "admin-announcements-changes"} ->
            GetRec("announcements", e.owner, gen, "event", e.name, e.run)
       [] e.name = "equipment-changes" ->
            GetRec("equipment_stats", e.owner, gen, "event", e.name, e.run)
       [] e.name = "points-changes" -> PointsRec(ch.filter, gen, "event", e.name, e.run)
       [] e.name = "claims-changes" -> ClaimsRec(ch.filter, gen, "event", e.name, e.run)
       [] e.name = "notifications_changes" ->
            [NewInv("NotificationsCenter.onInsert", Browser, e.row, e.run) EXCEPT
               !.caller = e.owner, !.gen = gen, !.via = "event", !.chan = e.name,
               !.pc = "done", !.toast = <<"info">>]

Deliver(e) ==
  /\ e \in pending
  /\ ChanOf(e) # {}
  /\ CanStart
  /\ opsLeft' = opsLeft - 1
  /\ pending' = pending \ {e}
  /\ inv' = Append(inv, Callback(e))
  /\ notifications' = IF e.name = "notifications_changes"
                        THEN <<[id |-> e.row, is_read |-> FALSE]>> \o notifications
                        ELSE notifications
  /\ UNCHANGED <<execOrder, sessUser, sessUid, mounted, mountGen, channels, chanSeq,
                 cleanup, intervals, listShown, homeUserPoints, borrowedItems, isLoading>>
  /\ UNCHANGED <<remoteTable, localStorage, notifTable, claimStatus, OldViews>>

\* ------------------------------------------- changes made by other clients
Backend_rowChanged(kind, r) ==
  /\ CanStart
  /\ opsLeft' = opsLeft - 1
  /\ remoteTable' = [remoteTable EXCEPT ![kind] = IF r \in @ THEN @ \ {r} ELSE @ \cup {r}]
  /\ pending' = pending \cup EventsFor(kind, Null, r)
  /\ UNCHANGED <<inv, execOrder, sessUser, sessUid, localStorage, listShown>>
  /\ UNCHANGED <<varsRt, notifTable, claimStatus, OldViews>>

Backend_pointsChanged(u, v) ==
  /\ CanStart
  /\ opsLeft' = opsLeft - 1
  /\ points' = add_points_to_user(points, u, v)
  /\ pending' = pending \cup EventsFor("points", u, u)
  /\ UNCHANGED <<inv, execOrder, sessUser, sessUid, points0, notifCreated,
                 loadingPointChange, loading, isAdmin>>
  /\ UNCHANGED <<varsStore, varsRt, notifTable, claimStatus, varsShop, varsBorrow, varsEquip,
                 varsPanel, varsRest>>

Backend_claimChanged(c, st) ==
  /\ CanStart
  /\ claimStatus[c] # st
  /\ opsLeft' = opsLeft - 1
  /\ claimStatus' = [claimStatus EXCEPT ![c] = st]
  /\ pending' = pending \cup EventsFor("claims", ClaimUser[c], c)
  /\ UNCHANGED <<inv, execOrder, sessUser, sessUid>>
  /\ UNCHANGED <<varsStore, varsRt, notifTable, OldViews>>

Backend_notificationInserted(n, u) ==
  /\ CanStart
  /\ \A k \in 1..Len(notifTable) : notifTable[k].id # n
  /\ opsLeft' = opsLeft - 1
  /\ notifTable' = Append(notifTable, [id |-> n, user_id |-> u, is_read |-> FALSE])
  /\ pending' = pending \cup EventsFor("notifications", u, n)
  /\ UNCHANGED <<inv, execOrder, sessUser, sessUid>>
  /\ UNCHANGED <<varsStore, varsRt, claimStatus, OldViews>>

\* ------------------------------------------- lib/storage.ts: reads
getReturnSyncOnError(readFailed, data, localData) ==
  IF readFailed THEN [src |-> "cache", rows |-> localData, sync |-> localData # {}]
  ELSE IF data # {} THEN [src |-> "remote", rows |-> data, sync |-> FALSE]
  ELSE [src |-> "cache", rows |-> localData, sync |-> localData # {}]

\* what getAnnouncements / getEquipmentAsync return after the remote read:
\* the rows read, or the cached/default list, and whether that list is first
\* saved to the remote store
getReturn(readFailed, data, localData) ==
  IF readFailed THEN [src |-> "cache", rows |-> localData, sync |-> FALSE]
  ELSE IF data # {} THEN [src |-> "remote", rows |-> data, sync |-> FALSE]
  ELSE [src |-> "cache", rows |-> localData, sync |-> localData # {}]

IsGet(i) == inv[i].op \in {"getAnnouncements", "getEquipmentAsync"}
IsSave(i) == inv[i].op \in {"saveAnnouncements", "saveEquipment"}

\* saveAnnouncements(list) / saveEquipment(list) up to its first await
SpawnSave(kind, list, parent) ==
  [NewInv(IF kind = "announcements" THEN "saveAnnouncements" ELSE "saveEquipment",
          Browser, kind, 0) EXCEPT
     !.parent = parent, !.data = list, !.seen = localStorage[kind], !.pc = "ids_sent",
     !.calls = <<Call("select id", kind, 0, "", FALSE)>>]

Remote_select_rows(i) ==
  /\ inv[i].pc = "read_sent"
  /\ inv' = [inv EXCEPT ![i].pc = "read_ok", ![i].ret = {remoteTable[inv[i].target]},
                        ![i].ans = Append(@, "ok")]
  /\ UNCHANGED <<opsLeft, execOrder, sessUser, sessUid, pending>>
  /\ UNCHANGED <<varsStore, varsRt, notifTable, claimStatus, OldViews>>

Remote_select_rows_fails(i) ==
  /\ inv[i].pc = "read_sent"
  /\ inv' = [inv EXCEPT ![i].pc = "read_err", ![i].ans = Append(@, "err")]
  /\ UNCHANGED <<opsLeft, execOrder, sessUser, sessUid, pending>>
  /\ UNCHANGED <<varsStore, varsRt, notifTable, claimStatus, OldViews>>

GetReturnsTargetOnly(i, rows, src, store) ==
  /\ inv' = [inv EXCEPT ![i].pc = "done", ![i].data = rows, ![i].src = src]
  /\ listShown' = IF ~StillMounted(i) THEN listShown
                  ELSE [listShown EXCEPT ![inv[i].caller][inv[i].target] = rows]

\* the value is returned; the caller (loadAnnouncements, loadEquipment,
\* loadData, a channel callback) puts it on screen; loadData also shows the
\* cached equipment list, getEquipment()
GetReturns(i, rows, src, store) ==
  /\ inv' = [inv EXCEPT ![i].pc = "done", ![i].data = rows, ![i].src = src]
  /\ listShown' =
       IF ~StillMounted(i) THEN listShown
       ELSE IF inv[i].caller = "AnnouncementsConfigPage" /\ inv[i].via = "effect"
         THEN [listShown EXCEPT ![inv[i].caller] =
                 [k \in Kinds |-> IF k = inv[i].target THEN rows
                                  ELSE IF store[k] # {} THEN Unwrap(store[k])
                                  ELSE DEFAULT_EQUIPMENT]]
         ELSE [listShown EXCEPT ![inv[i].caller][inv[i].target] = rows]

getData_AfterRead(i) ==
  /\ IsGet(i)
  /\ inv[i].pc \in {"read_ok", "read_err"}
  /\ LET kind == inv[i].target
         data == IF inv[i].pc = "read_ok" THEN Unwrap(inv[i].ret) ELSE {}
         d == getReturn(inv[i].pc = "read_err", data, LocalData(kind))
     IN IF d.sync
          THEN /\ localStorage' = [localStorage EXCEPT ![kind] = {d.rows}]
               /\ inv' = Append([inv EXCEPT ![i].pc = "syncing", ![i].data = d.rows,
                                            ![i].src = d.src],
                                SpawnSave(kind, d.rows, i))
               /\ UNCHANGED listShown
          ELSE /\ localStorage' = IF d.src = "remote" /\ kind = "equipment_stats"
                                    THEN [localStorage EXCEPT ![kind] = {data}]
                                    ELSE localStorage
               /\ GetReturns(i, d.rows, d.src, localStorage)
  /\ UNCHANGED <<opsLeft, execOrder, sessUser, sessUid, pending, remoteTable>>
  /\ UNCHANGED <<varsRt, notifTable, claimStatus, OldViews>>

\* await saveAnnouncements(localData) is over; a rejected save lands in the
\* catch block, which reads the cache again
getData_AfterSync(i) ==
  /\ IsGet(i)
  /\ inv[i].pc = "syncing"
  /\ \E j \in Ids :
       /\ IsSave(j) /\ inv[j].parent = i /\ inv[j].pc \in {"done", "failed"}
       /\ GetReturns(i, IF inv[j].pc = "failed" THEN LocalData(inv[i].target)
                        ELSE inv[i].data, "cache", localStorage)
  /\ UNCHANGED <<opsLeft, execOrder, sessUser, sessUid, pending, remoteTable, localStorage>>
  /\ UNCHANGED <<varsRt, notifTable, claimStatus, OldViews>>

\* ------------------------------------------- lib/storage.ts: saves
Existing(i) == IF inv[i].ret = {} THEN {} ELSE Unwrap(inv[i].ret)
IdsToDelete(i) == Existing(i) \ inv[i].data

Remote_select_ids(i) ==
  /\ inv[i].pc = "ids_sent"
  /\ inv' = [inv EXCEPT ![i].pc = "ids_ok", ![i].ret = {remoteTable[inv[i].target]},
                        ![i].ans = Append(@, "ok")]
  /\ UNCHANGED <<opsLeft, execOrder, sessUser, sessUid, pending>>
  /\ UNCHANGED <<varsStore, varsRt, notifTable, claimStatus, OldViews>>

Remote_select_ids_fails(i) ==
  /\ inv[i].pc = "ids_sent"
  /\ inv' = [inv EXCEPT ![i].pc = "ids_err", ![i].ans = Append(@, "err")]
  /\ UNCHANGED <<opsLeft, execOrder, sessUser, sessUid, pending>>
  /\ UNCHANGED <<varsStore, varsRt, notifTable, claimStatus, OldViews>>

\* the upsert of the list, or the end of the save when the list is empty
UpsertOrDone(i) ==
  IF inv[i].data # {}
    THEN Step(i, "ups_sent", <<Call("upsert", inv[i].target, 0, "", TRUE)>>, <<>>)
    ELSE Step(i, "done", <<>>, <<>>)

DeleteOrUpsert(i) ==
  IF IdsToDelete(i) # {}
    THEN Step(i, "del_sent", <<Call("delete", inv[i].target, 0, "", TRUE)>>, <<>>)
    ELSE UpsertOrDone(i)

save_AfterIds(i) ==
  /\ IsSave(i)
  /\ inv[i].pc \in {"ids_ok", "ids_err"}
  /\ IF inv[i].pc = "ids_err" /\ inv[i].op = "saveEquipment"
       THEN Step(i, "create_sent",
                 <<Call("create_equipment_stats_table_if_not_exists",
                        inv[i].target, 0, "", TRUE)>>, <<>>)
       ELSE DeleteOrUpsert(i)
  /\ UNCHANGED <<execOrder, sessUser, sessUid, pending>>
  /\ UNCHANGED <<varsStore, varsRt, notifTable, claimStatus, OldViews>>

\* tryCreateEquipmentStatsTable: the outcome is only logged
Remote_create_table_answer(i, r) ==
  /\ inv[i].pc = "create_sent"
  /\ r \in {"ok", "err"}
  /\ inv' = [inv EXCEPT ![i].pc = "create_back", ![i].ans = Append(@, r)]
  /\ UNCHANGED <<opsLeft, execOrder, sessUser, sessUid, pending>>
  /\ UNCHANGED <<varsStore, varsRt, notifTable, claimStatus, OldViews>>

save_AfterCreate(i) ==
  /\ IsSave(i)
  /\ inv[i].pc = "create_back"
  /\ DeleteOrUpsert(i)
  /\ UNCHANGED <<execOrder, sessUser, sessUid, pending>>
  /\ UNCHANGED <<varsStore, varsRt, notifTable, claimStatus, OldViews>>

Remote_delete_rows(i) ==
  /\ inv[i].pc = "del_sent"
  /\ remoteTable' = [remoteTable EXCEPT ![inv[i].target] = @ \ IdsToDelete(i)]
  /\ pending' = pending \cup EventsFor(inv[i].target, Null, "deleted")
  /\ inv' = [inv EXCEPT ![i].pc = "del_ok", ![i].ans = Append(@, "ok")]
  /\ UNCHANGED <<opsLeft, execOrder, sessUser, sessUid, localStorage, listShown>>
  /\ UNCHANGED <<varsRt, notifTable, claimStatus, OldViews>>

Remote_delete_fails(i) ==
  /\ inv[i].pc = "del_sent"
  /\ inv' = [inv EXCEPT ![i].pc = "del_err", ![i].ans = Append(@, "err")]
  /\ UNCHANGED <<opsLeft, execOrder, sessUser, sessUid, pending>>
  /\ UNCHANGED <<varsStore, varsRt, notifTable, claimStatus, OldViews>>

save_AfterDelete(i) ==
  /\ IsSave(i)
  /\ inv[i].pc \in {"del_ok", "del_err"}
  /\ UpsertOrDone(i)
  /\ UNCHANGED <<execOrder, sessUser, sessUid, pending>>
  /\ UNCHANGED <<varsStore, varsRt, notifTable, claimStatus, OldViews>>

Remote_upsert_rows(i) ==
  /\ inv[i].pc = "ups_sent"
  /\ remoteTable' = [remoteTable EXCEPT ![inv[i].target] = @ \cup inv[i].data]
  /\ pending' = pending \cup EventsFor(inv[i].target, Null, "upserted")
  /\ inv' = [inv EXCEPT ![i].pc = "ups_ok", ![i].ans = Append(@, "ok")]
  /\ UNCHANGED <<opsLeft, execOrder, sessUser, sessUid, localStorage, listShown>>
  /\ UNCHANGED <<varsRt, notifTable, claimStatus, OldViews>>

Remote_upsert_fails(i) ==
  /\ inv[i].pc = "ups_sent"
  /\ inv' = [inv EXCEPT ![i].pc = "ups_err", ![i].ans = Append(@, "err")]
  /\ UNCHANGED <<opsLeft, execOrder, sessUser, sessUid, pending>>
  /\ UNCHANGED <<varsStore, varsRt, notifTable, claimStatus, OldViews>>

\* saveAnnouncements rethrows the upsert error, saveEquipment only logs it
save_AfterUpsert(i) ==
  /\ IsSave(i)
  /\ inv[i].pc \in {"ups_ok", "ups_err"}
  /\ Step(i, IF inv[i].pc = "ups_err" /\ inv[i].op = "saveAnnouncements"
               THEN "failed" ELSE "done", <<>>, <<>>)
  /\ UNCHANGED <<execOrder, sessUser, sessUid, pending>>
  /\ UNCHANGED <<varsStore, varsRt, notifTable, claimStatus, OldViews>>

\* ------------------------------------------- AnnouncementsConfigPage handlers
\* removeAnnouncement(id) up to the first await inside saveAnnouncements: the
\* list without id is put on screen, written to localStorage, and the ids of
\* the remote rows are requested
removeAnnouncement_Start(id) ==
  /\ CanStart
  /\ mounted["AnnouncementsConfigPage"]
  /\ id \in listShown["AnnouncementsConfigPage"]["announcements"]
  /\ LET updatedAnnouncements == listShown["AnnouncementsConfigPage"]["announcements"] \ {id}
         h == [NewInv("removeAnnouncement", Browser, id, 0) EXCEPT
                 !.caller = "AnnouncementsConfigPage",
                 !.gen = mountGen["AnnouncementsConfigPage"], !.pc = "saving"]
     IN /\ inv' = inv \o <<h, SpawnSave("announcements", updatedAnnouncements, Len(inv) + 1)>>
        /\ listShown' = [listShown EXCEPT
                           !["AnnouncementsConfigPage"]["announcements"] = updatedAnnouncements]
        /\ localStorage' = [localStorage EXCEPT !["announcements"] = {updatedAnnouncements}]
  /\ opsLeft' = opsLeft - 1
  /\ UNCHANGED <<execOrder, sessUser, sessUid, pending, remoteTable>>
  /\ UNCHANGED <<varsRt, notifTable, claimStatus, OldViews>>

\* the awaited save is over: "Announcement Removed", or the error banner and
\* a reload through getAnnouncements
removeAnnouncement_After(i) ==
  /\ inv[i].op = "removeAnnouncement"
  /\ inv[i].pc = "saving"
  /\ \E j \in Ids :
       /\ IsSave(j) /\ inv[j].parent = i /\ inv[j].pc \in {"done", "failed"}
       /\ inv' = IF inv[j].pc = "done"
                   THEN [inv EXCEPT ![i].pc = "done", ![i].toast = Append(@, "success")]
                   ELSE Append([inv EXCEPT ![i].pc = "failed", ![i].toast = Append(@, "error")],
                               [GetRec("announcements", "AnnouncementsConfigPage", inv[i].gen,
                                       "handler", "", 0) EXCEPT !.parent = i])
  /\ UNCHANGED <<opsLeft, execOrder, sessUser, sessUid, pending>>
  /\ UNCHANGED <<varsStore, varsRt, notifTable, claimStatus, OldViews>>

\* the id addAnnouncement gives the new announcement, Date.now().toString()
NewRow == "t2"

\* addAnnouncement() up to the first await inside saveAnnouncements; with an
\* empty title or content it returns at once
addAnnouncement_Start(filled) ==
  /\ CanStart
  /\ mounted["AnnouncementsConfigPage"]
  /\ NewRow \notin listShown["AnnouncementsConfigPage"]["announcements"]
                     \cup remoteTable["announcements"]
  /\ LET updatedAnnouncements ==
           listShown["AnnouncementsConfigPage"]["announcements"] \cup {NewRow}
         h == [NewInv("addAnnouncement", Browser, NewRow, 0) EXCEPT
                 !.caller = "AnnouncementsConfigPage",
                 !.gen = mountGen["AnnouncementsConfigPage"],
                 !.pc = IF filled THEN "saving" ELSE "done"]
     IN IF filled
          THEN /\ inv' = inv \o <<h, SpawnSave("announcements", updatedAnnouncements,
                                                Len(inv) + 1)>>
               /\ listShown' = [listShown EXCEPT
                    !["AnnouncementsConfigPage"]["announcements"] = updatedAnnouncements]
               /\ localStorage' = [localStorage EXCEPT
                    !["announcements"] = {updatedAnnouncements}]
          ELSE /\ inv' = Append(inv, h)
               /\ UNCHANGED <<listShown, localStorage>>
  /\ opsLeft' = opsLeft - 1
  /\ UNCHANGED <<execOrder, sessUser, sessUid, pending, remoteTable>>
  /\ UNCHANGED <<varsRt, notifTable, claimStatus, OldViews>>

\* the awaited save is over: "Announcement Added", or the error banner and a
\* reload through getAnnouncements
addAnnouncement_After(i) ==
  /\ inv[i].op = "addAnnouncement"
  /\ inv[i].pc = "saving"
  /\ \E j \in Ids :
       /\ IsSave(j) /\ inv[j].parent = i /\ inv[j].pc \in {"done", "failed"}
       /\ inv' = IF inv[j].pc = "done"
                   THEN [inv EXCEPT ![i].pc = "done", ![i].toast = Append(@, "success")]
                   ELSE Append([inv EXCEPT ![i].pc = "failed", ![i].toast = Append(@, "error")],
                               [GetRec("announcements", "AnnouncementsConfigPage", inv[i].gen,
                                       "handler", "", 0) EXCEPT !.parent = i])
  /\ UNCHANGED <<opsLeft, execOrder, sessUser, sessUid, pending>>
  /\ UNCHANGED <<varsStore, varsRt, notifTable, claimStatus, OldViews>>

\* ------------------------------------------- HomePage, NotificationsCenter loads
\* setUserPoints(data || 0); a failure is only logged
HomePage_fetchUserPoints_After(i) ==
  /\ inv[i].op = "HomePage.fetchUserPoints"
  /\ inv[i].pc \in {"fetch_ok", "fetch_err"}
  /\ homeUserPoints' = IF inv[i].pc = "fetch_ok" /\ StillMounted(i)
                         THEN (IF inv[i].ret = {} THEN 0 ELSE Unwrap(inv[i].ret))
                         ELSE homeUserPoints
  /\ Step(i, "done", <<>>, <<>>)
  /\ UNCHANGED <<execOrder, sessUser, sessUid, pending, mounted, mountGen, channels,
                 chanSeq, cleanup, intervals, notifications, borrowedItems, isLoading>>
  /\ UNCHANGED <<varsStore, notifTable, claimStatus, OldViews>>

\* the approved claims of the user
Remote_claims_read(i) ==
  /\ inv[i].pc = "claims_sent"
  /\ inv' = [inv EXCEPT ![i].pc = "claims_ok", ![i].ans = Append(@, "ok"),
                        ![i].ret = {c \in Claims : /\ ClaimUser[c] = inv[i].target
                                                   /\ claimStatus[c] = "approved"}]
  /\ UNCHANGED <<opsLeft, execOrder, sessUser, sessUid, pending>>
  /\ UNCHANGED <<varsStore, varsRt, notifTable, claimStatus, OldViews>>

Remote_claims_read_fails(i) ==
  /\ inv[i].pc = "claims_sent"
  /\ inv' = [inv EXCEPT ![i].pc = "claims_err", ![i].ans = Append(@, "err")]
  /\ UNCHANGED <<opsLeft, execOrder, sessUser, sessUid, pending>>
  /\ UNCHANGED <<varsStore, varsRt, notifTable, claimStatus, OldViews>>

\* setBorrowedItems(data?.length || 0); on failure setBorrowedItems(0)
fetchBorrowedItems_After(i) ==
  /\ inv[i].op = "fetchBorrowedItems"
  /\ inv[i].pc \in {"claims_ok", "claims_err"}
  /\ borrowedItems' = IF ~StillMounted(i) THEN borrowedItems
                      ELSE IF inv[i].pc = "claims_ok" THEN Cardinality(inv[i].ret) ELSE 0
  /\ Step(i, "done", <<>>, <<>>)
  /\ UNCHANGED <<execOrder, sessUser, sessUid, pending, mounted, mountGen, channels,
                 chanSeq, cleanup, intervals, notifications, homeUserPoints,
                 isLoading>>
  /\ UNCHANGED <<varsStore, notifTable, claimStatus, OldViews>>

\* .eq("user_id", user.id).order("created_at", { ascending: false })
UserNotifications(user) ==
  LET mine == SelectSeq(notifTable, LAMBDA n : n.user_id = user)
  IN Reverse([k \in 1..Len(mine) |-> [id |-> mine[k].id, is_read |-> mine[k].is_read]])

Remote_notifications_read(i) ==
  /\ inv[i].pc = "notifs_sent"
  /\ inv' = [inv EXCEPT ![i].pc = "notifs_ok", ![i].ans = Append(@, "ok"),
                        ![i].ret = {UserNotifications(inv[i].target)}]
  /\ UNCHANGED <<opsLeft, execOrder, sessUser, sessUid, pending>>
  /\ UNCHANGED <<varsStore, varsRt, notifTable, claimStatus, OldViews>>

Remote_notifications_read_fails(i) ==
  /\ inv[i].pc = "notifs_sent"
  /\ inv' = [inv EXCEPT ![i].pc = "notifs_err", ![i].ans = Append(@, "err")]
  /\ UNCHANGED <<opsLeft, execOrder, sessUser, sessUid, pending>>
  /\ UNCHANGED <<varsStore, varsRt, notifTable, claimStatus, OldViews>>

\* setNotifications(data || []), or the error banner
fetchNotifications_After(i) ==
  /\ inv[i].op = "fetchNotifications"
  /\ inv[i].pc \in {"notifs_ok", "notifs_err"}
  /\ notifications' = IF inv[i].pc = "notifs_ok" /\ StillMounted(i)
                        THEN Unwrap(inv[i].ret) ELSE notifications
  /\ Step(i, "done", <<>>, IF inv[i].pc = "notifs_ok" THEN <<>> ELSE <<"error">>)
  /\ UNCHANGED <<execOrder, sessUser, sessUid, pending, mounted, mountGen, channels,
                 chanSeq, cleanup, intervals, homeUserPoints, borrowedItems, isLoading>>
  /\ UNCHANGED <<varsStore, notifTable, claimStatus, OldViews>>

\* ------------------------------------------- NotificationItem, NotificationsCenter
Center == "NotificationsCenter"

\* the arguments of supabase.rpc("mark_notification_read", {...})
markArgs(id) == Call("mark_notification_read", id, 0, "", TRUE)

\* UPDATE notifications SET is_read = TRUE
\* WHERE id = notification_uuid AND user_id = auth.uid()
mark_notification_read(table, notification_uuid, uid) ==
  [k \in 1..Len(table) |->
     IF table[k].id = notification_uuid /\ table[k].user_id = uid
       THEN [table[k] EXCEPT !.is_read = TRUE] ELSE table[k]]

\* notifications.filter(n => !n.is_read).map(n => n.id)
UnreadIds(list) ==
  LET unread == SelectSeq(list, LAMBDA n : ~n.is_read)
  IN [k \in 1..Len(unread) |-> unread[k].id]

RestOfLoopNone(ids) == <<>>

\* for (const id of unreadIds): the ids the loop has still to visit
RestOfLoop(ids) == Tail(ids)

\* prev.map(n => n.id === id ? { ...n, is_read: true } : n)
MarkedRead(list, ids) ==
  [k \in 1..Len(list) |->
     IF list[k].id \in ids THEN [list[k] EXCEPT !.is_read = TRUE] ELSE list[k]]

ShownIds == {notifications[k].id : k \in 1..Len(notifications)}
UnreadShown == {notifications[k].id : k \in {j \in 1..Len(notifications) :
                                               ~notifications[j].is_read}}

ItemHandler(op, n) ==
  [NewInv(op, Browser, n, 0) EXCEPT !.caller = Center, !.gen = mountGen[Center]]

OutsideMarks == <<execOrder, sessUser, sessUid, pending, mounted, mountGen, channels,
                  chanSeq, cleanup, intervals, homeUserPoints, borrowedItems,
                  varsStore, claimStatus, OldViews>>

\* the check button of an unread item, disabled while the item is loading
handleMarkAsRead_Start(n) ==
  /\ CanStart
  /\ mounted[Center]
  /\ n \in UnreadShown
  /\ n \notin isLoading
  /\ isLoading' = isLoading \cup {n}
  /\ Begin(ItemHandler("handleMarkAsRead", n), "mark_sent", <<markArgs(n)>>, <<>>)
  /\ UNCHANGED <<notifications, notifTable>>
  /\ UNCHANGED OutsideMarks

\* the backend runs mark_notification_read for the session's user
Remote_mark_notification_read(i) ==
  /\ inv[i].pc = "mark_sent"
  /\ notifTable' = mark_notification_read(notifTable, Last(inv[i].calls).target,
                                          User(inv[i].sess))
  /\ inv' = [inv EXCEPT ![i].pc = "mark_ok", ![i].ans = Append(@, "ok")]
  /\ UNCHANGED <<opsLeft, notifications, isLoading>>
  /\ UNCHANGED OutsideMarks

\* the call resolves with { error }: supabase.rpc does not throw
Remote_mark_fails(i) ==
  /\ RemoteFail(i, "mark_sent", "mark_err")
  /\ UNCHANGED <<notifications, isLoading, notifTable>>
  /\ UNCHANGED OutsideMarks

\* if (error) throw error; onMarkAsRead(id); finally setIsLoading(false)
handleMarkAsRead_After(i) ==
  /\ inv[i].op = "handleMarkAsRead"
  /\ inv[i].pc \in {"mark_ok", "mark_err"}
  /\ notifications' = IF inv[i].pc = "mark_ok" /\ StillMounted(i)
                        THEN MarkedRead(notifications, {inv[i].target})
                        ELSE notifications
  /\ isLoading' = IF StillMounted(i) THEN isLoading \ {inv[i].target} ELSE isLoading
  /\ Step(i, "done", <<>>, IF inv[i].pc = "mark_ok" THEN <<>> ELSE <<"error">>)
  /\ UNCHANGED notifTable
  /\ UNCHANGED OutsideMarks

\* the "Mark all as read" button, rendered while unreadCount > 0
handleMarkAllAsRead_Start ==
  /\ CanStart
  /\ mounted[Center]
  /\ UnreadShown # {}
  /\ LET unreadIds == UnreadIds(notifications)
         rec == [ItemHandler("handleMarkAllAsRead", "all") EXCEPT
                   !.seen = Cardinality(UnreadShown)]
     IN IF User(Browser) = Null \/ Len(unreadIds) = 0
          THEN Begin(rec, "done", <<>>, <<>>)
          ELSE Begin([rec EXCEPT !.queue = RestOfLoop(unreadIds)], "mark_sent",
                     <<markArgs(Head(unreadIds))>>, <<>>)
  /\ UNCHANGED <<notifications, isLoading, notifTable>>
  /\ UNCHANGED OutsideMarks

\* for (const id of unreadIds) await supabase.rpc(...): the result is not
\* looked at; after the last one every item is set read and "Success" shown
handleMarkAllAsRead_Continue(i) ==
  /\ inv[i].op = "handleMarkAllAsRead"
  /\ inv[i].pc \in {"mark_ok", "mark_err"}
  /\ IF inv[i].queue # <<>>
       THEN /\ inv' = [inv EXCEPT ![i].pc = "mark_sent",
                                  ![i].calls = Append(@, markArgs(Head(inv[i].queue))),
                                  ![i].queue = RestOfLoop(@)]
            /\ UNCHANGED notifications
       ELSE /\ inv' = [inv EXCEPT ![i].pc = "done", ![i].toast = Append(@, "success")]
            /\ notifications' = IF StillMounted(i)
                                  THEN MarkedRead(notifications, ShownIds)
                                  ELSE notifications
  /\ UNCHANGED <<opsLeft, isLoading, notifTable>>
  /\ UNCHANGED OutsideMarks

\* ------------------------------------------- AdminClaimsPanel
fetchClaimsCall == Call("select claims_with_user", Null, 0, "", FALSE)

\* the arguments of supabase.rpc('update_claim_status_with_notification', {...})
updateStatusArgs(claimId, newStatus) ==
  Call("update_claim_status_with_notification", claimId, 0, newStatus, TRUE)

SpawnFetchClaims(parent) ==
  [NewInv("fetchClaims", Browser, Null, 0) EXCEPT
     !.pc = "clist_sent", !.parent = parent, !.calls = <<fetchClaimsCall>>]

OutsidePanel == <<execOrder, sessUser, sessUid, varsStore, varsRt, varsPoints, varsShop,
                  varsBorrow, varsEquip, varsRest>>

\* fetchClaims() run by the mount effect; the shop page renders the panel
\* for the administrator only
AdminClaimsPanel_fetchClaims ==
  /\ CanStart
  /\ sessUser[Browser] = "admin"
  /\ inv' = Append(inv, SpawnFetchClaims(0))
  /\ opsLeft' = opsLeft - 1
  /\ UNCHANGED <<pending, notifTable, claimStatus, claimsShown, updating>>
  /\ UNCHANGED OutsidePanel

\* the rows of claims_with_user: every claim with its status
Remote_claims_with_user_read(i) ==
  /\ inv[i].pc = "clist_sent"
  /\ inv' = [inv EXCEPT ![i].pc = "clist_ok", ![i].ans = Append(@, "ok"),
                        ![i].ret = {<<c, claimStatus[c]>> : c \in Claims}]
  /\ UNCHANGED <<opsLeft, pending, notifTable, claimStatus, claimsShown, updating>>
  /\ UNCHANGED OutsidePanel

Remote_claims_with_user_fails(i) ==
  /\ RemoteFail(i, "clist_sent", "clist_err")
  /\ UNCHANGED <<pending, notifTable, claimStatus, claimsShown, updating>>
  /\ UNCHANGED OutsidePanel

\* setClaims(transformedData), or the "Failed to load claims" banner
fetchClaims_After(i) ==
  /\ inv[i].op = "fetchClaims"
  /\ inv[i].pc \in {"clist_ok", "clist_err"}
  /\ claimsShown' = IF inv[i].pc = "clist_ok" THEN inv[i].ret ELSE claimsShown
  /\ Step(i, "done", <<>>, IF inv[i].pc = "clist_ok" THEN <<>> ELSE <<"error">>)
  /\ UNCHANGED <<pending, notifTable, claimStatus, updating>>
  /\ UNCHANGED OutsidePanel

\* Approve / Reject: rendered for a claim shown as pending, disabled while
\* that claim is updating
handleUpdateStatus_Start(claimId, newStatus) ==
  /\ CanStart
  /\ sessUser[Browser] = "admin"
  /\ <<claimId, "pending">> \in claimsShown
  /\ updating # claimId
  /\ updating' = claimId
  /\ Begin(NewInv("handleUpdateStatus", Browser, claimId, 0), "upd_sent",
           <<updateStatusArgs(claimId, newStatus)>>, <<>>)
  /\ UNCHANGED <<pending, notifTable, claimStatus, claimsShown>>
  /\ UNCHANGED OutsidePanel

FreshNotif == CHOOSE n \in NewNotifs : \A k \in 1..Len(notifTable) : notifTable[k].id # n

\* UPDATE claims SET status = new_status WHERE id = claim_uuid;
\* PERFORM create_notification(claim_user_id, ...)
Remote_update_claim_status_with_notification(i) ==
  /\ inv[i].pc = "upd_sent"
  /\ \E n \in NewNotifs : \A k \in 1..Len(notifTable) : notifTable[k].id # n
  /\ LET c == Last(inv[i].calls)
         claim_user_id == ClaimUser[c.target]
     IN /\ claimStatus' = [claimStatus EXCEPT ![c.target] = c.kind]
        /\ notifTable' = Append(notifTable, [id |-> FreshNotif, user_id |-> claim_user_id,
                                             is_read |-> FALSE])
        /\ pending' = pending \cup EventsFor("claims", claim_user_id, c.target)
                              \cup EventsFor("notifications", claim_user_id, FreshNotif)
  /\ inv' = [inv EXCEPT ![i].pc = "upd_ok", ![i].ans = Append(@, "ok")]
  /\ UNCHANGED <<opsLeft, claimsShown, updating>>
  /\ UNCHANGED OutsidePanel

Remote_update_claim_status_fails(i) ==
  /\ RemoteFail(i, "upd_sent", "upd_err")
  /\ UNCHANGED <<pending, notifTable, claimStatus, claimsShown, updating>>
  /\ UNCHANGED OutsidePanel

\* success: banner, then fetchClaims() (not awaited); failure: error banner;
\* finally setUpdating(null)
handleUpdateStatus_After(i) ==
  /\ inv[i].op = "handleUpdateStatus"
  /\ inv[i].pc \in {"upd_ok", "upd_err"}
  /\ IF inv[i].pc = "upd_ok"
       THEN /\ inv' = Append([inv EXCEPT ![i].pc = "done", ![i].toast = @ \o <<"success">>],
                             SpawnFetchClaims(i))
            /\ UNCHANGED opsLeft
       ELSE Step(i, "done", <<>>, <<"error">>)
  /\ updating' = Null
  /\ UNCHANGED <<pending, notifTable, claimStatus, claimsShown>>
  /\ UNCHANGED OutsidePanel

\* ------------------------------------------- ShopPage.addToCart
cartRow(user_id, item_id) == [user_id |-> user_id, item_id |-> item_id, quantity |-> 1]

\* the arguments of supabase.from("cart_items").upsert({...}, {...})
addToCartArgs(uid, item) == Call("upsert cart_items", uid, 1, item, TRUE)

insert_cart_item(rows, row) == Append(rows, row)

\* INSERT ... ON CONFLICT (user_id, item_id) DO UPDATE (ignoreDuplicates: false)
upsert_cart_item(rows, row) ==
  IF \E k \in 1..Len(rows) : rows[k].user_id = row.user_id /\ rows[k].item_id = row.item_id
    THEN [k \in 1..Len(rows) |->
            IF rows[k].user_id = row.user_id /\ rows[k].item_id = row.item_id
              THEN [rows[k] EXCEPT !.quantity = row.quantity] ELSE rows[k]]
    ELSE Append(rows, row)

OutsideCart == <<execOrder, sessUser, sessUid, varsPoints, varsShop, varsBorrow, varsEquip,
                 varsStore, varsRt, pending, notifTable, claimStatus, varsPanel, varsRoute,
                 varsCount, varsSubmit, varsUsers, varsBoard>>

addToCart_Start(s, item) ==
  /\ CanStart
  /\ IF sessUser[s] = "none"
       THEN Begin(NewInv("addToCart", s, item, 0), "done", <<>>, <<"error">>)
       ELSE Begin(NewInv("addToCart", s, item, 0), "cart_sent",
                  <<addToCartArgs(sessUid[s], item)>>, <<>>)
  /\ UNCHANGED cart_items
  /\ UNCHANGED OutsideCart

Remote_cart_upsert(i) ==
  /\ inv[i].pc = "cart_sent"
  /\ LET c == Last(inv[i].calls)
     IN cart_items' = upsert_cart_item(cart_items, cartRow(c.target, c.kind))
  /\ inv' = [inv EXCEPT ![i].pc = "cart_ok", ![i].ans = Append(@, "ok")]
  /\ UNCHANGED opsLeft
  /\ UNCHANGED OutsideCart

Remote_cart_fails(i) ==
  /\ RemoteFail(i, "cart_sent", "cart_err")
  /\ UNCHANGED cart_items
  /\ UNCHANGED OutsideCart

\* "Item added to cart!", or the error banner
addToCart_After(i) ==
  /\ inv[i].op = "addToCart"
  /\ inv[i].pc \in {"cart_ok", "cart_err"}
  /\ Step(i, "done", <<>>, IF inv[i].pc = "cart_ok" THEN <<"success">> ELSE <<"error">>)
  /\ UNCHANGED cart_items
  /\ UNCHANGED OutsideCart

\* ------------------------------------------------------------- Init
\* ------------------------------------------- Cart: fetchCart, submitClaim
OutsideSubmit == <<execOrder, sessUser, sessUid, varsPoints, varsShop, varsBorrow, varsEquip,
                   varsStore, varsRt, pending, notifTable, claimStatus, varsPanel,
                   varsRoute, varsCount, varsUsers, varsBoard>>

\* the item ids of the cart rows of user u
CartOf(rows, u) == {rows[k].item_id : k \in {j \in 1..Len(rows) : rows[j].user_id = u}}
\* DELETE FROM cart_items WHERE user_id = auth.uid()
clear_cart(rows, u) == SelectSeq(rows, LAMBDA r : r.user_id # u)

\* the effect of the Cart sheet: if (open && user) fetchCart()
fetchCart_Start(s) ==
  /\ CanStart
  /\ sessUser[s] # "none"
  /\ Begin(NewInv("fetchCart", s, sessUid[s], 0), "cartlist_sent",
           <<Call("select cart_items", sessUid[s], 0, "", FALSE)>>, <<>>)
  /\ UNCHANGED <<cart_items, claimRows, cartShown>>
  /\ UNCHANGED OutsideSubmit

Remote_cart_read(i) ==
  /\ inv[i].pc = "cartlist_sent"
  /\ inv' = [inv EXCEPT ![i].pc = "cartlist_ok",
                        ![i].ret = {CartOf(cart_items, Last(inv[i].calls).target)},
                        ![i].ans = Append(@, "ok")]
  /\ UNCHANGED <<opsLeft, cart_items, claimRows, cartShown>>
  /\ UNCHANGED OutsideSubmit

Remote_cart_read_fails(i) ==
  /\ RemoteFail(i, "cartlist_sent", "cartlist_err")
  /\ UNCHANGED <<cart_items, claimRows, cartShown>>
  /\ UNCHANGED OutsideSubmit

\* setItems(typedData), or the error banner
fetchCart_After(i) ==
  /\ inv[i].op = "fetchCart"
  /\ inv[i].pc \in {"cartlist_ok", "cartlist_err"}
  /\ cartShown' = IF inv[i].pc = "cartlist_ok"
                    THEN [cartShown EXCEPT ![inv[i].sess] = Unwrap(inv[i].ret)]
                    ELSE cartShown
  /\ Step(i, "done", <<>>, IF inv[i].pc = "cartlist_ok" THEN <<>> ELSE <<"error">>)
  /\ UNCHANGED <<cart_items, claimRows>>
  /\ UNCHANGED OutsideSubmit

\* if (!user || items.length === 0) return; then supabase.rpc("submit_cart_claim")
submitClaim_Start(s) ==
  /\ CanStart
  /\ IF sessUser[s] = "none" \/ cartShown[s] = {}
       THEN Begin(NewInv("submitClaim", s, sessUid[s], 0), "done", <<>>, <<>>)
       ELSE Begin(NewInv("submitClaim", s, sessUid[s], 0), "submit_sent",
                  <<Call("submit_cart_claim", sessUid[s], 0, "", TRUE)>>, <<>>)
  /\ UNCHANGED <<cart_items, claimRows, cartShown>>
  /\ UNCHANGED OutsideSubmit

\* submit_cart_claim, first statements: 'Cart is empty' unless the user has a
\* cart row; INSERT INTO claims; INSERT INTO claim_items SELECT ... FROM
\* cart_items. Each statement reads the rows committed when it starts.
Remote_submit_cart_claim_copy(i) ==
  /\ inv[i].pc = "submit_sent"
  /\ LET u == Last(inv[i].calls).target
     IN inv' = IF CartOf(cart_items, u) = {}
                 THEN [inv EXCEPT ![i].pc = "submit_err", ![i].ans = Append(@, "err")]
                 ELSE [inv EXCEPT ![i].pc = "submit_copied", ![i].data = CartOf(cart_items, u)]
  /\ UNCHANGED <<opsLeft, cart_items, claimRows, cartShown>>
  /\ UNCHANGED OutsideSubmit

\* submit_cart_claim, last statement and commit: DELETE FROM cart_items WHERE
\* user_id = auth.uid(), on the rows committed by then
Remote_submit_cart_claim_clear(i) ==
  /\ inv[i].pc = "submit_copied"
  /\ LET u == Last(inv[i].calls).target
     IN /\ claimRows' = Append(claimRows, [user_id |-> u, items |-> inv[i].data,
                                           status |-> "pending", by |-> i,
                                           cleared |-> CartOf(cart_items, u)])
        /\ cart_items' = clear_cart(cart_items, u)
  /\ inv' = [inv EXCEPT ![i].pc = "submit_ok", ![i].ans = Append(@, "ok")]
  /\ UNCHANGED <<opsLeft, cartShown>>
  /\ UNCHANGED OutsideSubmit

Remote_submit_fails(i) ==
  /\ RemoteFail(i, "submit_sent", "submit_err")
  /\ UNCHANGED <<cart_items, claimRows, cartShown>>
  /\ UNCHANGED OutsideSubmit

\* success banner and setItems([]), or the error banner
submitClaim_After(i) ==
  /\ inv[i].op = "submitClaim"
  /\ inv[i].pc \in {"submit_ok", "submit_err"}
  /\ cartShown' = IF inv[i].pc = "submit_ok"
                    THEN [cartShown EXCEPT ![inv[i].sess] = {}] ELSE cartShown
  /\ Step(i, "done", <<>>, IF inv[i].pc = "submit_ok" THEN <<"success">> ELSE <<"error">>)
  /\ UNCHANGED <<cart_items, claimRows>>
  /\ UNCHANGED OutsideSubmit

\* ------------------------------------------- AdminEquipmentPage: counts
OutsideCount == <<execOrder, sessUser, sessUid, varsPoints, varsShop, varsBorrow, varsEquip,
                  varsStore, varsRt, pending, notifTable, claimStatus, varsPanel,
                  cart_items, varsRoute, varsSubmit, varsUsers, varsBoard>>

Max0(x) == IF x < 0 THEN 0 ELSE x

\* supabase.from('equipment_stats').update({ count }).eq('id', id)
updateCountArgs(count) == Call("update equipment_stats", "item", count, "", TRUE)

\* fetchEquipment() of AdminEquipmentPage up to its await
SpawnCountFetch(s, parent) ==
  [NewInv("AdminEquipmentPage.fetchEquipment", s, "item", 0) EXCEPT
     !.pc = "list_sent", !.parent = parent,
     !.calls = <<Call("select equipment_stats", Null, 0, "", FALSE)>>]

\* the '+' button sends item.count + 1, the '-' button Math.max(0, item.count - 1),
\* item.count being the count on screen
handleUpdateEquipmentCountArg(shown, step) ==
  IF step = 1 THEN shown + 1 ELSE Max0(shown - 1)

handleUpdateEquipmentCount_Start(s, step) ==
  /\ CanStart
  /\ step \in {-1, 1}
  /\ LET count == handleUpdateEquipmentCountArg(countShown[s], step)
     IN Begin([NewInv("handleUpdateEquipmentCount", s, "item", count) EXCEPT
                 !.reqVal = step, !.seen = countShown[s]],
              "upd_sent", <<updateCountArgs(count)>>, <<>>)
  /\ UNCHANGED <<itemCount, countShown>>
  /\ UNCHANGED OutsideCount

Remote_update_count(i) ==
  /\ inv[i].pc = "upd_sent"
  /\ itemCount' = Last(inv[i].calls).val
  /\ inv' = [inv EXCEPT ![i].pc = "upd_ok", ![i].ans = Append(@, "ok")]
  /\ UNCHANGED <<opsLeft, countShown>>
  /\ UNCHANGED OutsideCount

Remote_update_count_fails(i) ==
  /\ RemoteFail(i, "upd_sent", "upd_err")
  /\ UNCHANGED <<itemCount, countShown>>
  /\ UNCHANGED OutsideCount

\* the Success banner and fetchEquipment(), not awaited; or the Error banner
handleUpdateEquipmentCount_After(i) ==
  /\ inv[i].op = "handleUpdateEquipmentCount"
  /\ inv[i].pc \in {"upd_ok", "upd_err"}
  /\ inv' = IF inv[i].pc = "upd_ok"
              THEN Append([inv EXCEPT ![i].pc = "done", ![i].toast = Append(@, "success")],
                          SpawnCountFetch(inv[i].sess, i))
              ELSE [inv EXCEPT ![i].pc = "done", ![i].toast = Append(@, "error")]
  /\ UNCHANGED <<opsLeft, itemCount, countShown>>
  /\ UNCHANGED OutsideCount

\* the Refresh button
AdminEquipmentPage_fetchEquipment(s) ==
  /\ CanStart
  /\ inv' = Append(inv, SpawnCountFetch(s, 0))
  /\ opsLeft' = opsLeft - 1
  /\ UNCHANGED <<itemCount, countShown>>
  /\ UNCHANGED OutsideCount

Remote_equipment_stats_read(i) ==
  /\ inv[i].pc = "list_sent"
  /\ inv' = [inv EXCEPT ![i].pc = "list_ok", ![i].ret = {itemCount},
                        ![i].ans = Append(@, "ok")]
  /\ UNCHANGED <<opsLeft, itemCount, countShown>>
  /\ UNCHANGED OutsideCount

Remote_equipment_stats_read_fails(i) ==
  /\ RemoteFail(i, "list_sent", "list_err")
  /\ UNCHANGED <<itemCount, countShown>>
  /\ UNCHANGED OutsideCount

\* setEquipment(data || []), or the Error banner
AdminEquipmentPage_fetchEquipment_After(i) ==
  /\ inv[i].op = "AdminEquipmentPage.fetchEquipment"
  /\ inv[i].pc \in {"list_ok", "list_err"}
  /\ countShown' = IF inv[i].pc = "list_ok"
                     THEN [countShown EXCEPT ![inv[i].sess] = Unwrap(inv[i].ret)]
                     ELSE countShown
  /\ Step(i, "done", <<>>, IF inv[i].pc = "list_ok" THEN <<>> ELSE <<"error">>)
  /\ UNCHANGED itemCount
  /\ UNCHANGED OutsideCount

\* ------------------------------------------- App Router, ProtectedRoute
Undefined == "undefined"
HardAdmin == "ademmsallem782@gmail.com"
ExampleAdmin == "admin@example.com"
Emails == {HardAdmin, ExampleAdmin, "lead@club.org"}
EnvValues == Emails \cup {Undefined}
\* a || b
OrElse(a, b) == IF a = Undefined THEN b ELSE a
YesNo(b) == IF b THEN "yes" ELSE "no"

\* the routes of the Switch, in order
MemberRoutes == {"/profile", "/equipment", "/borrowings", "/user-profile/:id", "/shop"}
AdminRoutes == {"/announcements", "/admin/club-info", "/admin/config", "/admin/equipment"}
Paths == {"/auth", "/home", "/", "/missing"} \cup MemberRoutes \cup AdminRoutes
PageRoutes == {"/home"} \cup MemberRoutes \cup AdminRoutes

PageOf(path) ==
  CASE path = "/auth" -> "AuthPage"
    [] path = "/home" -> "HomePage"
    [] path = "/profile" -> "ProfilePage"
    [] path = "/equipment" -> "EquipmentPage"
    [] path = "/borrowings" -> "BorrowingsPage"
    [] path = "/user-profile/:id" -> "UserProfilePage"
    [] path = "/shop" -> "ShopPage"
    [] path = "/announcements" -> "AnnouncementsPage"
    [] path = "/admin/club-info" -> "AnnouncementsConfigPage"
    [] path = "/admin/config" -> "AdminConfigPage"
    [] path = "/admin/equipment" -> "AdminEquipmentPage"
    [] OTHER -> "NotFound"

\* protected-route.tsx:6 and :22
GuardAdminEmail(vite) == OrElse(vite, HardAdmin)
GuardIsAdmin(email, vite) == email = GuardAdminEmail(vite)

\* the page's own administrator check: "yes" | "no", "none" where the page
\* has no check, "loading" where it returns a loader for a missing user
PageIsAdmin(page, email, vite, next) ==
  CASE page \in {"ShopPage", "AnnouncementsPage", "HomePage"} -> YesNo(email = vite)
    [] page \in {"AnnouncementsConfigPage", "AdminConfigPage"} ->
         IF email = Undefined THEN "loading" ELSE YesNo(email = vite)
    [] page = "AdminEquipmentPage" ->
         YesNo(email # Undefined /\ email = OrElse(next, ExampleAdmin))
    [] page = "BorrowingsPage" -> YesNo(email = HardAdmin)
    [] OTHER -> "none"

Spinner == [kind |-> "spinner", page |-> Null, admin |-> "none", to |-> Null]
RedirectTo(path) == [kind |-> "redirect", page |-> Null, admin |-> "none", to |-> path]
\* <Component />; AnnouncementsPage's effect sends a non-administrator to /shop
Page(page, email, vite, next) ==
  [kind |-> "page", page |-> page, admin |-> PageIsAdmin(page, email, vite, next),
   to |-> IF page = "AnnouncementsPage" /\ email # vite THEN "/shop" ELSE Null]

ProtectedRoute(loadingNow, email, path, adminOnly, vite, next) ==
  IF loadingNow THEN Spinner
  ELSE IF email # Undefined
    THEN IF adminOnly
           THEN IF GuardIsAdmin(email, vite)
                  THEN Page(PageOf(path), email, vite, next)
                  ELSE RedirectTo("/")
           ELSE Page(PageOf(path), email, vite, next)
  ELSE RedirectTo("/auth")

Router(loadingNow, email, path, vite, next) ==
  IF loadingNow THEN Spinner
  ELSE CASE path = "/auth" ->
              IF email # Undefined THEN RedirectTo("/home")
              ELSE Page("AuthPage", email, vite, next)
         [] path = "/home" -> Page("HomePage", email, vite, next)
         [] path \in MemberRoutes -> ProtectedRoute(loadingNow, email, path, FALSE, vite, next)
         [] path \in AdminRoutes -> ProtectedRoute(loadingNow, email, path, TRUE, vite, next)
         [] path = "/" ->
              IF email # Undefined THEN RedirectTo("/home") ELSE RedirectTo("/auth")
         [] OTHER -> Page("NotFound", email, vite, next)

OutsideRoute == <<varsCore, varsPoints, varsShop, varsBorrow, varsEquip, varsStore, varsRt,
                  pending, notifTable, claimStatus, varsPanel, cart_items,
                  viteAdminEmail, nextAdminEmail, varsCount, varsSubmit, varsUsers,
                  varsBoard>>

Rerender(loadingNow, email, path) ==
  /\ authLoading' = loadingNow
  /\ authEmail' = email
  /\ location' = path
  /\ screen' = Router(loadingNow, email, path, viteAdminEmail, nextAdminEmail)
  /\ UNCHANGED OutsideRoute

\* the auth provider has read the stored session
AuthResolved(email) ==
  /\ authLoading
  /\ Rerender(FALSE, email, location)

SignIn(email) ==
  /\ ~authLoading /\ authEmail = Undefined
  /\ Rerender(FALSE, email, location)

SignOut ==
  /\ ~authLoading /\ authEmail # Undefined
  /\ Rerender(FALSE, Undefined, location)

\* a link, the address bar
Navigate(path) ==
  /\ path # location
  /\ Rerender(authLoading, authEmail, path)

\* <Redirect to=... /> and setLocation in an effect
FollowRedirect ==
  /\ screen.to # Null
  /\ Rerender(authLoading, authEmail, screen.to)

\* ------------------------------------------- UserManagement
OutsideUsers == <<execOrder, sessUser, sessUid, varsPoints, varsShop, varsBorrow, varsEquip,
                  varsStore, varsRt, pending, notifTable, claimStatus, varsPanel,
                  cart_items, varsRoute, varsCount, varsSubmit, varsBoard>>

MemberEmail == "lead@club.org"
\* a role column that is null or empty is written ""
Roles == {"admin", "user", ""}
userRow(id, email, role) == [id |-> id, email |-> email, role |-> role]
\* public.users mirrors the accounts: u1 is the administrator's, u2 a member's
UserTables == {a \cup m : a \in {{}} \cup {{userRow("u1", HardAdmin, r)} : r \in Roles},
                          m \in {{}} \cup {{userRow("u2", MemberEmail, r)} : r \in Roles}}

\* role: user.role || (user.email === 'ademmsallem782@gmail.com' ? 'admin' : 'user')
roleShown(r) == IF r.role # "" THEN r.role
                ELSE IF r.email = HardAdmin THEN "admin" ELSE "user"

\* transformedUsers, with the current admin put in front if no row has the email
transformedUsers(dbUsers, currentUserId) ==
  LET t == {userRow(r.id, r.email, roleShown(r)) : r \in dbUsers}
  IN IF \E u \in t : u.email = HardAdmin THEN t
     ELSE t \cup {userRow(currentUserId, HardAdmin, "admin")}

\* fetchUsers() up to its select: auth.getUser(), then the isAdmin test
SpawnFetchUserList(parent) ==
  [NewInv("UserManagement.fetchUsers", Browser, Null, 0) EXCEPT
     !.parent = parent,
     !.pc = IF sessUser[Browser] = "admin" THEN "users_sent" ELSE "users_denied",
     !.calls = IF sessUser[Browser] = "admin"
                 THEN <<Call("select users", Null, 0, "", FALSE)>> ELSE <<>>]

\* useEffect(() => { fetchUsers(); }, [])
UserManagement_Mount ==
  /\ CanStart
  /\ \A i \in Ids : inv[i].op # "UserManagement.fetchUsers"
  /\ inv' = Append(inv, SpawnFetchUserList(0))
  /\ opsLeft' = opsLeft - 1
  /\ UNCHANGED varsUsers
  /\ UNCHANGED OutsideUsers

Remote_users_read(i) ==
  /\ inv[i].pc = "users_sent"
  /\ inv' = [inv EXCEPT ![i].pc = "users_ok", ![i].ret = {usersTable},
                        ![i].ans = Append(@, "ok")]
  /\ UNCHANGED opsLeft
  /\ UNCHANGED varsUsers
  /\ UNCHANGED OutsideUsers

Remote_users_read_fails(i) ==
  /\ RemoteFail(i, "users_sent", "users_err")
  /\ UNCHANGED varsUsers
  /\ UNCHANGED OutsideUsers

\* setUsers(transformedUsers), or the error banner; finally setLoading(false)
UserManagement_fetchUsers_After(i) ==
  /\ inv[i].op = "UserManagement.fetchUsers"
  /\ inv[i].pc \in {"users_ok", "users_err", "users_denied"}
  /\ usersShown' = IF inv[i].pc = "users_ok"
                     THEN transformedUsers(Unwrap(inv[i].ret), sessUid[inv[i].sess])
                     ELSE usersShown
  /\ usersLoading' = FALSE
  /\ Step(i, "done", <<>>, IF inv[i].pc = "users_ok" THEN <<>> ELSE <<"error">>)
  /\ UNCHANGED usersTable
  /\ UNCHANGED OutsideUsers

\* the Delete button of a displayed row whose role is not 'admin', then
\* window.confirm
handleDeleteUser_Start(r, confirmDelete) ==
  /\ CanStart
  /\ ~usersLoading
  /\ r \in usersShown
  /\ r.role # "admin"
  /\ IF confirmDelete
       THEN Begin([NewInv("handleDeleteUser", Browser, r.id, 0) EXCEPT !.via = "confirmed"],
                  "del_sent", <<Call("delete users", r.id, 0, "", TRUE)>>, <<>>)
       ELSE Begin([NewInv("handleDeleteUser", Browser, r.id, 0) EXCEPT !.via = "cancelled"],
                  "done", <<>>, <<>>)
  /\ UNCHANGED varsUsers
  /\ UNCHANGED OutsideUsers

Remote_users_delete(i) ==
  /\ inv[i].pc = "del_sent"
  /\ usersTable' = {x \in usersTable : x.id # Last(inv[i].calls).target}
  /\ inv' = [inv EXCEPT ![i].pc = "del_ok", ![i].ans = Append(@, "ok")]
  /\ UNCHANGED <<opsLeft, usersShown, usersLoading>>
  /\ UNCHANGED OutsideUsers

Remote_users_delete_fails(i) ==
  /\ RemoteFail(i, "del_sent", "del_err")
  /\ UNCHANGED varsUsers
  /\ UNCHANGED OutsideUsers

\* the Success banner and fetchUsers(), not awaited; or the error banner
handleDeleteUser_After(i) ==
  /\ inv[i].op = "handleDeleteUser"
  /\ inv[i].pc \in {"del_ok", "del_err"}
  /\ inv' = IF inv[i].pc = "del_ok"
              THEN Append([inv EXCEPT ![i].pc = "done", ![i].toast = @ \o <<"success">>],
                          SpawnFetchUserList(i))
              ELSE [inv EXCEPT ![i].pc = "done", ![i].toast = @ \o <<"error">>]
  /\ UNCHANGED opsLeft
  /\ UNCHANGED varsUsers
  /\ UNCHANGED OutsideUsers

\* ------------------------------------------- Leaderboard.fetchUsers
OutsideBoard == <<execOrder, sessUser, sessUid, varsPoints, varsShop, varsBorrow, varsEquip,
                  varsStore, varsRt, pending, notifTable, claimStatus, varsPanel,
                  cart_items, varsRoute, varsCount, varsSubmit, varsUsers>>

PointValues == {0, 5}
ProfileRows == [id : Users, points : PointValues, is_admin : BOOLEAN]
\* the relation's rows, listed by non-increasing points; the order among
\* rows of equal points is the reader's (OrderedByPoints)
ProfileLists ==
  UNION {{q \in [1..n -> ProfileRows] :
            \A k \in 1..n : k < n => q[k].points >= q[k + 1].points} : n \in 0..MaxRows}

\* .order('points', { ascending: false }): the rows in some order of
\* non-increasing points
OrderedByPoints(rel) ==
  LET n == Len(rel)
      orders == {f \in [1..n -> 1..n] :
                   /\ \A k, l \in 1..n : f[k] = f[l] => k = l
                   /\ \A k, l \in 1..n : k < l => rel[f[k]].points >= rel[f[l]].points}
  IN {[k \in 1..n |-> rel[f[k]]] : f \in orders}

\* data.filter(...) with the Set uniqueUsers: the first row of each id is
\* kept, is_admin rows are dropped and their ids are not remembered
RECURSIVE uniqueNonAdmin(_, _)
uniqueNonAdmin(data, uniqueUsers) ==
  IF data = <<>> THEN <<>>
  ELSE IF Head(data).id \in uniqueUsers \/ Head(data).is_admin
    THEN uniqueNonAdmin(Tail(data), uniqueUsers)
    ELSE <<Head(data)>> \o uniqueNonAdmin(Tail(data), uniqueUsers \cup {Head(data).id})

withRank(kept) ==
  [k \in 1..Len(kept) |-> [id |-> kept[k].id, points |-> kept[k].points,
                           is_admin |-> kept[k].is_admin, rank |-> k]]

rankedUsersUnfiltered(data) == withRank(data)

\* .filter(...).map((user, index) => ({ ...user, rank: index + 1 }))
rankedUsers(data) == withRank(uniqueNonAdmin(data, {}))

\* the mount effect or a refresh: setLoading(true), then the select
Leaderboard_fetchUsers_Start ==
  /\ CanStart
  /\ boardLoading' = TRUE
  /\ Begin(NewInv("Leaderboard.fetchUsers", Browser, Null, 0), "board_sent",
           <<fetchUsersCall>>, <<>>)
  /\ UNCHANGED <<profiles, board>>
  /\ UNCHANGED OutsideBoard

Remote_profiles_read(i) ==
  /\ inv[i].pc = "board_sent"
  /\ \E q \in OrderedByPoints(profiles) :
       inv' = [inv EXCEPT ![i].pc = "board_ok", ![i].ret = {q}, ![i].ans = Append(@, "ok")]
  /\ UNCHANGED opsLeft
  /\ UNCHANGED varsBoard
  /\ UNCHANGED OutsideBoard

Remote_profiles_read_fails(i) ==
  /\ RemoteFail(i, "board_sent", "board_err")
  /\ UNCHANGED varsBoard
  /\ UNCHANGED OutsideBoard

\* setUsers(rankedUsers), or the error banner; finally setLoading(false)
Leaderboard_fetchUsers_After(i) ==
  /\ inv[i].op = "Leaderboard.fetchUsers"
  /\ inv[i].pc \in {"board_ok", "board_err"}
  /\ board' = IF inv[i].pc = "board_ok" THEN rankedUsers(Unwrap(inv[i].ret)) ELSE board
  /\ boardLoading' = FALSE
  /\ Step(i, "done", <<>>, IF inv[i].pc = "board_ok" THEN <<>> ELSE <<"error">>)
  /\ UNCHANGED profiles
  /\ UNCHANGED OutsideBoard

InitCore(n, identities) ==
  /\ inv = <<>>
  /\ opsLeft = n
  /\ execOrder = <<>>
  /\ sessUser \in identities
  /\ sessUid = [s \in Sessions |-> IF s = "s1" THEN "u1" ELSE "u2"]

AnyIdentities == {f \in [Sessions -> {"none", "member", "admin"}] : f["s1"] = "admin"}
TwoAdmins == {[s \in Sessions |-> "admin"]}

InitPointsVars ==
  /\ points = [u \in {"u2"} |-> StartBalance]     \* u1 has no row yet
  /\ points0 = points
  /\ notifCreated = [u \in Users |-> 0]
  /\ loadingPointChange = [s \in Sessions |-> Null]
  /\ loading = [s \in Sessions |-> {}]
  /\ isAdmin = [s \in Sessions |-> FALSE]

InitShopVars ==
  /\ userPoints = [s \in Sessions |-> 0]          \* useState<number>(0)

InitEquipVars ==
  /\ equipment = [s \in Sessions |-> <<0, "initial">>]   \* useState<EquipmentItem[]>([])
  /\ eqLoading = [s \in Sessions |-> TRUE]

\* nothing is mounted; the tables are empty or hold a row another client saved
EmptyTables == {[k \in Kinds |-> {}]}
EmptyOrSaved == [Kinds -> {{}, {"t1"}}]

InitViewVars(tables, rows) ==
  /\ remoteTable \in tables
  /\ localStorage = [k \in Kinds |-> {}]
  /\ listShown = [c \in Components |-> [k \in Kinds |-> {}]]
  /\ mounted = [c \in Components |-> FALSE]
  /\ mountGen = [c \in Components |-> 0]
  /\ channels = {}
  /\ chanSeq = 0
  /\ cleanup = [c \in Components |-> 0]
  /\ intervals = [c \in Components |-> 0]
  /\ pending = {}
  /\ notifications = <<>>
  /\ homeUserPoints = 0
  /\ borrowedItems = 0
  /\ notifTable = rows
  /\ claimStatus = [c \in Claims |-> "pending"]
  /\ claimsShown = {}                             \* useState<Claim[]>([])
  /\ updating = Null                              \* useState<string | null>(null)
  /\ isLoading = {}                               \* useState(false), per item

\* the Router before anything is opened
RouterIdle ==
  /\ viteAdminEmail = Undefined
  /\ nextAdminEmail = Undefined
  /\ authLoading = TRUE
  /\ authEmail = Undefined
  /\ location = "/"
  /\ screen = Router(TRUE, Undefined, "/", Undefined, Undefined)

\* the equipment list of AdminEquipmentPage after its mount effect loaded it
CountLoaded ==
  /\ itemCount = StartCount
  /\ countShown = [s \in Sessions |-> StartCount]

\* no claim was submitted and the Cart sheet has not been opened
CartClosed ==
  /\ cart_items = <<>>
  /\ claimRows = <<>>
  /\ cartShown = [s \in Sessions |-> {}]            \* useState<CartItem[]>([])

\* UserManagement is not open; public.users is empty
UsersIdle ==
  /\ usersTable = {}
  /\ usersShown = {}                               \* useState<User[]>([])
  /\ usersLoading = TRUE                           \* useState(true)

\* the Leaderboard has not loaded; profiles_with_points is empty
BoardIdle ==
  /\ profiles = <<>>
  /\ board = <<>>                                  \* useState<LeaderboardUser[]>([])
  /\ boardLoading = TRUE                           \* useState(true)

InitPagesVars(tables, rows) ==
  /\ InitViewVars(tables, rows) /\ RouterIdle /\ CountLoaded /\ CartClosed
  /\ UsersIdle /\ BoardIdle

InitBorrowVars ==
  /\ is_hidden = [b \in Borrowings |-> b = "b2"]
  /\ borrowings = [s \in Sessions |-> {}]         \* useState<Borrowing[]>([])
  /\ isUpdating = [s \in Sessions |-> {}]

vars == <<inv, opsLeft, execOrder, sessUser, sessUid, points, points0, notifCreated,
          loadingPointChange, loading, isAdmin, userPoints,
          is_hidden, borrowings, isUpdating, equipment, eqLoading,
          remoteTable, localStorage, listShown, mounted, mountGen, channels, chanSeq,
          cleanup, intervals, pending, notifications, homeUserPoints, borrowedItems,
          notifTable, claimStatus, claimsShown, updating, isLoading, cart_items,
          viteAdminEmail, nextAdminEmail, authLoading, authEmail, location, screen,
          itemCount, countShown, claimRows, cartShown,
          usersTable, usersShown, usersLoading, profiles, board, boardLoading>>

\* ------------------------------------------------------------- SpecPoints
\* two administrator sessions adjusting points through the Leaderboard
LeaderboardRemote ==
  \/ \E i \in Ids : Remote_add_points_to_user(i)
  \/ \E i \in Ids : Remote_add_points_fails(i)
  \/ \E i \in Ids : Remote_create_notification(i)
  \/ \E i \in Ids : Remote_create_notification_fails(i)

LeaderboardSteps ==
  \/ \E i \in Ids : addPoints_AddFailed(i)
  \/ \E i \in Ids : addPoints_AfterAdd(i)
  \/ \E i \in Ids : addPoints_AfterNotif(i)

AdjustInputs == {v \in POINT_ADJUSTMENTS : v \in {-10, 5}}

NextPoints ==
  \/ \E s \in Sessions, u \in Users, v \in AdjustInputs : addPoints_Start(s, u, v)
  \/ LeaderboardRemote
  \/ LeaderboardSteps

InitPoints ==
  /\ InitCore(MaxOps, TwoAdmins)
  /\ InitPointsVars
  /\ InitShopVars
  /\ InitBorrowVars
  /\ InitEquipVars
  /\ InitPagesVars(EmptyTables, <<>>)

SpecPoints == InitPoints /\ [][NextPoints]_vars

\* ------------------------------------------------------------- SpecAdjust
\* one submission at a time through either admin control, by any session
NextAdjust ==
  \/ \E s \in Sessions, u \in Users, v \in POINT_ADJUSTMENTS : addPoints_Start(s, u, v)
  \/ \E s \in Sessions, u \in Users, v \in pointButtons : handlePointChange_Start(s, u, v)
  \/ \E s \in Sessions : AdminPanel_setIsAdmin(s)
  \/ \E i \in Ids : handlePointChange_AfterAdd(i)
  \/ LeaderboardRemote
  \/ LeaderboardSteps

InitAdjust ==
  /\ InitCore(MaxSubmit, AnyIdentities)
  /\ InitPointsVars
  /\ InitShopVars
  /\ InitBorrowVars
  /\ InitEquipVars
  /\ InitPagesVars(EmptyTables, <<>>)

SpecAdjust == InitAdjust /\ [][NextAdjust]_vars

\* ------------------------------------------------------------- SpecShop
Members == {f \in [Sessions -> {"none", "member"}] : f["s2"] = "member"}

NextShop ==
  \/ \E s \in Sessions, it \in Items : handlePurchase_Start(s, it)
  \/ \E s \in Sessions : ShopPage_fetchUserPoints(s)
  \/ \E u \in Users, v \in AdjustInputs : Backend_pointsAdjusted(u, v)
  \/ \E i \in Ids : Remote_purchase_shop_item(i)
  \/ \E i \in Ids : Remote_purchase_fails(i)
  \/ \E i \in Ids : handlePurchase_After(i)
  \/ \E i \in Ids : Remote_fetch_user_points(i)
  \/ \E i \in Ids : Remote_fetch_user_points_fails(i)
  \/ \E i \in Ids : ShopPage_fetchUserPoints_After(i)

InitShop ==
  /\ InitCore(MaxShopOps, Members)
  /\ InitPointsVars
  /\ InitShopVars
  /\ InitBorrowVars
  /\ InitEquipVars
  /\ InitPagesVars(EmptyTables, <<>>)

SpecShop == InitShop /\ [][NextShop]_vars

\* ------------------------------------------------------------- SpecBorrow
AdminAndMember ==
  {f \in [Sessions -> {"none", "member", "admin"}] : f["s1"] = "admin" /\ f["s2"] # "admin"}

NextBorrow ==
  \/ \E s \in Sessions : BorrowingsPage_fetchBorrowings(s)
  \/ \E s \in Sessions, b \in Borrowings : toggleVisibility_Start(s, b)
  \/ \E i \in Ids : Remote_borrowings_read(i)
  \/ \E i \in Ids : Remote_borrowings_read_fails(i)
  \/ \E i \in Ids : fetchBorrowings_After(i)
  \/ \E i \in Ids : Remote_toggle_borrowing_visibility(i)
  \/ \E i \in Ids : Remote_toggle_fails(i)
  \/ \E i \in Ids : toggleVisibility_After(i)

InitBorrow ==
  /\ InitCore(MaxBorrowOps, AdminAndMember)
  /\ InitPointsVars
  /\ InitShopVars
  /\ InitBorrowVars
  /\ InitEquipVars
  /\ InitPagesVars(EmptyTables, <<>>)

SpecBorrow == InitBorrow /\ [][NextBorrow]_vars

\* ------------------------------------------------------------- SpecEquip
AllResults == {"err", "null", "empty", "rows", "garbage", "ok"}

NextEquip ==
  \/ \E s \in {"s1"} : fetchEquipment_Start(s)
  \/ \E i \in Ids, r \in AllResults : Remote_equipment_answer(i, r)
  \/ \E i \in Ids : fetchEquipment_Continue(i)

InitEquip ==
  /\ InitCore(MaxLoads, AdminAndMember)
  /\ InitPointsVars
  /\ InitShopVars
  /\ InitBorrowVars
  /\ InitEquipVars
  /\ InitPagesVars(EmptyTables, <<>>)

SpecEquip == InitEquip /\ [][NextEquip]_vars

\* ------------------------------------------------------------- SpecStore
\* the two pages that show announcements and equipment: a signed-out visitor
\* of the home page, or the administrator
SignedOut == {f \in [Sessions -> {"none", "admin"}] : f["s2"] = "none"}
StorePages == {"HomePage", "AnnouncementsConfigPage"}

ReadsRemote ==
  \/ \E i \in Ids : Remote_select_rows(i)
  \/ \E i \in Ids : Remote_select_rows_fails(i)

SavesRemote ==
  \/ \E i \in Ids : Remote_select_ids(i)
  \/ \E i \in Ids : Remote_select_ids_fails(i)
  \/ \E i \in Ids, r \in {"ok", "err"} : Remote_create_table_answer(i, r)
  \/ \E i \in Ids : Remote_delete_rows(i)
  \/ \E i \in Ids : Remote_delete_fails(i)
  \/ \E i \in Ids : Remote_upsert_rows(i)
  \/ \E i \in Ids : Remote_upsert_fails(i)

SavesSteps ==
  \/ \E i \in Ids : getData_AfterSync(i)
  \/ \E i \in Ids : save_AfterIds(i)
  \/ \E i \in Ids : save_AfterCreate(i)
  \/ \E i \in Ids : save_AfterDelete(i)
  \/ \E i \in Ids : save_AfterUpsert(i)

NextStore ==
  \/ \E c \in StorePages : Mount(c)
  \/ \E c \in StorePages : Unmount(c)
  \/ \E e \in pending : Deliver(e)
  \/ \E kind \in Kinds, r \in Rows \ DEFAULT_ANNOUNCEMENTS : Backend_rowChanged(kind, r)
  \/ \E i \in Ids : getData_AfterRead(i)
  \/ ReadsRemote
  \/ SavesRemote
  \/ SavesSteps

InitStore ==
  /\ InitCore(MaxStoreOps, SignedOut)
  /\ InitPointsVars
  /\ InitShopVars
  /\ InitBorrowVars
  /\ InitEquipVars
  /\ InitPagesVars(EmptyOrSaved, <<>>)

SpecStore == InitStore /\ [][NextStore]_vars

\* ------------------------------------------------------------- SpecPages
\* the three subscribing components; the changes other clients make are
\* those a live channel listens to, and the tables keep the row "t1"
MemberOrNone == {f \in [Sessions -> {"none", "member"}] : f["s1"] = "member" /\ f["s2"] = "none"}
AdminOrNone == {f \in [Sessions -> {"none", "admin"}] : f["s1"] = "admin" /\ f["s2"] = "none"}
\* the administrator is user u1; u2 is a member
Identity(k, u) == (k = "admin" => u = "u1") /\ (k = "member" => u = "u2")
SavedTables == {[k \in Kinds |-> {"t1"}]}

LoadsRemote ==
  \/ \E i \in Ids : Remote_fetch_user_points(i)
  \/ \E i \in Ids : Remote_fetch_user_points_fails(i)
  \/ \E i \in Ids : Remote_claims_read(i)
  \/ \E i \in Ids : Remote_claims_read_fails(i)
  \/ \E i \in Ids : Remote_notifications_read(i)
  \/ \E i \in Ids : Remote_notifications_read_fails(i)

LoadsSteps ==
  \/ \E i \in Ids : getData_AfterRead(i)
  \/ \E i \in Ids : HomePage_fetchUserPoints_After(i)
  \/ \E i \in Ids : fetchBorrowedItems_After(i)
  \/ \E i \in Ids : fetchNotifications_After(i)

ListenedChanges ==
  \/ \E kind \in Kinds, r \in DEFAULT_ANNOUNCEMENTS :
       EventsFor(kind, Null, r) # {} /\ Backend_rowChanged(kind, r)
  \/ \E u \in Users :
       EventsFor("points", u, u) # {} /\ Backend_pointsChanged(u, CheapCost)
  \/ \E c \in Claims :
       EventsFor("claims", ClaimUser[c], c) # {} /\ Backend_claimChanged(c, "approved")
  \/ \E n \in Notifs, u \in Users :
       /\ EventsFor("notifications", u, n) # {}
       /\ n = "n2" => Len(notifTable) > 0
       /\ Backend_notificationInserted(n, u)

NextPages ==
  \/ \E c \in Components : Mount(c)
  \/ \E c \in Components : Unmount(c)
  \/ \E k \in {"none", "member", "admin"}, u \in Users : Identity(k, u) /\ AuthChange(k, u)
  \/ \E e \in pending : Deliver(e)
  \/ ListenedChanges
  \/ ReadsRemote
  \/ LoadsRemote
  \/ LoadsSteps

InitPages ==
  /\ InitCore(MaxPageOps, AdminOrNone)
  /\ InitPointsVars
  /\ InitShopVars
  /\ InitBorrowVars
  /\ InitEquipVars
  /\ InitPagesVars(SavedTables, <<>>)

SpecPages == InitPages /\ [][NextPages]_vars

\* ------------------------------------------------------------- SpecNotif
\* the notification centre of a member who has two unread notifications
TwoUnread == <<[id |-> "n1", user_id |-> "u1", is_read |-> FALSE],
               [id |-> "n2", user_id |-> "u1", is_read |-> FALSE]>>

MarksRemote ==
  \/ \E i \in Ids : Remote_notifications_read(i)
  \/ \E i \in Ids : Remote_notifications_read_fails(i)
  \/ \E i \in Ids : Remote_mark_notification_read(i)
  \/ \E i \in Ids : Remote_mark_fails(i)

MarksSteps ==
  \/ \E n \in Notifs : handleMarkAsRead_Start(n)
  \/ handleMarkAllAsRead_Start
  \/ \E i \in Ids : fetchNotifications_After(i)
  \/ \E i \in Ids : handleMarkAsRead_After(i)
  \/ \E i \in Ids : handleMarkAllAsRead_Continue(i)

NextNotif ==
  \/ Mount(Center)
  \/ Unmount(Center)
  \/ MarksRemote
  \/ MarksSteps

InitNotif ==
  /\ InitCore(MaxNotifOps, MemberOrNone)
  /\ InitPointsVars
  /\ InitShopVars
  /\ InitBorrowVars
  /\ InitEquipVars
  /\ InitPagesVars(EmptyTables, TwoUnread)

SpecNotif == InitNotif /\ [][NextNotif]_vars

\* ------------------------------------------------------------- SpecOps
\* the operations of the views: an administrator (s1) who adjusts points,
\* updates claims and reads notifications, and a member (s2) who buys
AdminAndBuyer == {[s \in Sessions |-> IF s = "s1" THEN "admin" ELSE "member"]}

\* the user starts an operation while fewer than MaxInFlight are running
Idle == Cardinality({i \in Ids : inv[i].pc # "done"}) < MaxInFlight

\* POINT_ADJUSTMENTS: the +5 button
Raise == CHOOSE v \in POINT_ADJUSTMENTS : v = 5

UiStarts ==
  \/ Mount(Center)
  \/ \E n \in Notifs : handleMarkAsRead_Start(n)
  \/ handleMarkAllAsRead_Start
  \/ addPoints_Start("s1", "u2", Raise)
  \/ \E it \in Items : handlePurchase_Start("s2", it)
  \/ ShopPage_fetchUserPoints("s2")
  \/ AdminClaimsPanel_fetchClaims
  \/ \E c \in Claims, st \in {"approved", "rejected"} : handleUpdateStatus_Start(c, st)

UiRemote ==
  \/ MarksRemote
  \/ LeaderboardRemote
  \/ \E i \in Ids : Remote_purchase_shop_item(i)
  \/ \E i \in Ids : Remote_purchase_fails(i)
  \/ \E i \in Ids : Remote_fetch_user_points(i)
  \/ \E i \in Ids : Remote_fetch_user_points_fails(i)
  \/ \E i \in Ids : Remote_claims_with_user_read(i)
  \/ \E i \in Ids : Remote_claims_with_user_fails(i)
  \/ \E i \in Ids : Remote_update_claim_status_with_notification(i)
  \/ \E i \in Ids : Remote_update_claim_status_fails(i)

UiSteps ==
  \/ \E i \in Ids : fetchNotifications_After(i)
  \/ \E i \in Ids : handleMarkAsRead_After(i)
  \/ \E i \in Ids : handleMarkAllAsRead_Continue(i)
  \/ LeaderboardSteps
  \/ \E i \in Ids : handlePurchase_After(i)
  \/ \E i \in Ids : ShopPage_fetchUserPoints_After(i)
  \/ \E i \in Ids : fetchClaims_After(i)
  \/ \E i \in Ids : handleUpdateStatus_After(i)

NextOps ==
  \/ Idle /\ UiStarts
  \/ UiRemote
  \/ UiSteps

InitOps ==
  /\ InitCore(MaxUiOps, AdminAndBuyer)
  /\ InitPointsVars
  /\ InitShopVars
  /\ InitBorrowVars
  /\ InitEquipVars
  /\ InitPagesVars(EmptyTables, TwoUnread)

SpecOps == InitOps /\ [][NextOps]_vars

\* ------------------------------------------------------------- SpecPanel
\* the administrator's claims panel, its operations overlapping freely
NextPanel ==
  \/ AdminClaimsPanel_fetchClaims
  \/ \E c \in Claims, st \in {"approved", "rejected"} : handleUpdateStatus_Start(c, st)
  \/ \E i \in Ids : Remote_claims_with_user_read(i)
  \/ \E i \in Ids : Remote_claims_with_user_fails(i)
  \/ \E i \in Ids : fetchClaims_After(i)
  \/ \E i \in Ids : Remote_update_claim_status_with_notification(i)
  \/ \E i \in Ids : Remote_update_claim_status_fails(i)
  \/ \E i \in Ids : handleUpdateStatus_After(i)

InitPanel ==
  /\ InitCore(MaxPanelOps, AdminAndBuyer)
  /\ InitPointsVars
  /\ InitShopVars
  /\ InitBorrowVars
  /\ InitEquipVars
  /\ InitPagesVars(EmptyTables, <<>>)

SpecPanel == InitPanel /\ [][NextPanel]_vars

\* ------------------------------------------------------------- SpecCart
\* members (and a signed-out visitor) adding shop items to their carts
NextCart ==
  \/ \E s \in Sessions, it \in Items : addToCart_Start(s, it)
  \/ \E i \in Ids : Remote_cart_upsert(i)
  \/ \E i \in Ids : Remote_cart_fails(i)
  \/ \E i \in Ids : addToCart_After(i)

InitCart ==
  /\ InitCore(MaxCartOps, Members)
  /\ InitPointsVars
  /\ InitShopVars
  /\ InitBorrowVars
  /\ InitEquipVars
  /\ InitPagesVars(EmptyTables, <<>>)

SpecCart == InitCart /\ [][NextCart]_vars

\* ------------------------------------------------------------- SpecRemove
\* the administrator on the configuration page, removing announcements
MaxRemoveOps == 3
AdminOnly == {[s \in Sessions |-> IF s = Browser THEN "admin" ELSE "none"]}
NoneOrTwoSaved == {[k \in Kinds |-> IF k = "announcements" THEN t ELSE {}] :
                     t \in {{}, {"1", "t1"}}}

NextRemove ==
  \/ Mount("AnnouncementsConfigPage")
  \/ Unmount("AnnouncementsConfigPage")
  \/ \E e \in pending : Deliver(e)
  \/ \E r \in Rows : removeAnnouncement_Start(r)
  \/ \E i \in Ids : removeAnnouncement_After(i)
  \/ \E filled \in BOOLEAN : addAnnouncement_Start(filled)
  \/ \E i \in Ids : addAnnouncement_After(i)
  \/ \E i \in Ids : getData_AfterRead(i)
  \/ \E i \in Ids : getData_AfterSync(i)
  \/ ReadsRemote
  \/ \E i \in Ids : Remote_select_ids(i)
  \/ \E i \in Ids : Remote_select_ids_fails(i)
  \/ \E i \in Ids : Remote_delete_rows(i)
  \/ \E i \in Ids : Remote_delete_fails(i)
  \/ \E i \in Ids : Remote_upsert_rows(i)
  \/ \E i \in Ids : Remote_upsert_fails(i)
  \/ \E i \in Ids : save_AfterIds(i)
  \/ \E i \in Ids : save_AfterDelete(i)
  \/ \E i \in Ids : save_AfterUpsert(i)

InitRemove ==
  /\ InitCore(MaxRemoveOps, AdminOnly)
  /\ InitPointsVars
  /\ InitShopVars
  /\ InitBorrowVars
  /\ InitEquipVars
  /\ InitPagesVars(NoneOrTwoSaved, <<>>)

SpecRemove == InitRemove /\ [][NextRemove]_vars

\* ------------------------------------------------------------- SpecCount
\* two administrator sessions stepping the count of one equipment item
NextCount ==
  \/ \E s \in Sessions, step \in {-1, 1} : handleUpdateEquipmentCount_Start(s, step)
  \/ \E s \in Sessions : AdminEquipmentPage_fetchEquipment(s)
  \/ \E i \in Ids : Remote_update_count(i)
  \/ \E i \in Ids : Remote_update_count_fails(i)
  \/ \E i \in Ids : handleUpdateEquipmentCount_After(i)
  \/ \E i \in Ids : Remote_equipment_stats_read(i)
  \/ \E i \in Ids : Remote_equipment_stats_read_fails(i)
  \/ \E i \in Ids : AdminEquipmentPage_fetchEquipment_After(i)

InitCount ==
  /\ InitCore(MaxCountOps, TwoAdmins)
  /\ InitPointsVars
  /\ InitShopVars
  /\ InitBorrowVars
  /\ InitEquipVars
  /\ InitPagesVars(EmptyTables, <<>>)

SpecCount == InitCount /\ [][NextCount]_vars

\* ------------------------------------------------------------- SpecSubmit
\* members filling, opening and submitting their carts
NextSubmit ==
  \/ \E s \in Sessions, it \in Items : addToCart_Start(s, it)
  \/ \E i \in Ids : Remote_cart_upsert(i)
  \/ \E i \in Ids : Remote_cart_fails(i)
  \/ \E i \in Ids : addToCart_After(i)
  \/ \E s \in Sessions : fetchCart_Start(s)
  \/ \E i \in Ids : Remote_cart_read(i)
  \/ \E i \in Ids : Remote_cart_read_fails(i)
  \/ \E i \in Ids : fetchCart_After(i)
  \/ \E s \in Sessions : submitClaim_Start(s)
  \/ \E i \in Ids : Remote_submit_cart_claim_copy(i)
  \/ \E i \in Ids : Remote_submit_cart_claim_clear(i)
  \/ \E i \in Ids : Remote_submit_fails(i)
  \/ \E i \in Ids : submitClaim_After(i)

\* the second session's user has one item in the cart
InitSubmit ==
  /\ InitCore(MaxSubmitOps, Members)
  /\ InitPointsVars
  /\ InitShopVars
  /\ InitBorrowVars
  /\ InitEquipVars
  /\ InitViewVars(EmptyTables, <<>>)
  /\ RouterIdle
  /\ CountLoaded
  /\ claimRows = <<>>
  /\ cartShown = [s \in Sessions |-> {}]
  /\ cart_items = <<cartRow("u2", "i1")>>
  /\ UsersIdle /\ BoardIdle

SpecSubmit == InitSubmit /\ [][NextSubmit]_vars

\* the submissions whose remote call reaches pc `to` in this step
Reaching(to) == {i \in Ids : inv[i].op = "submitClaim" /\ inv[i].pc # to /\ inv'[i].pc = to}

\* C26: a submission issues no call without a user or with an empty displayed
\* cart; a successful submit_cart_claim creates exactly one pending claim
\* holding exactly the cart rows it removes, leaves the user's remote cart
\* empty and the displayed cart empty; a failed one creates no claim and
\* leaves the remote and the displayed cart as they were.
C26_SubmitStep ==
  /\ \A i \in Ids' \ Ids :
        inv'[i].op = "submitClaim" /\ inv'[i].calls # <<>>
          => sessUser[inv'[i].sess] # "none" /\ cartShown[inv'[i].sess] # {}
  /\ \A i \in Reaching("submit_ok") :
        /\ Len(claimRows') = Len(claimRows) + 1
        /\ Last(claimRows').status = "pending"
        /\ Last(claimRows').user_id = inv[i].target
        /\ Last(claimRows').items = CartOf(cart_items, inv[i].target)
        /\ CartOf(cart_items', inv[i].target) = {}
  /\ \A i \in Ids :
        inv[i].op = "submitClaim" /\ inv[i].pc = "submit_ok" /\ inv'[i].pc = "done"
          => cartShown'[inv[i].sess] = {}
  /\ \A i \in Ids :
        /\ inv[i].op = "submitClaim"
        /\ i \in Reaching("submit_err") \/ (inv[i].pc = "submit_err" /\ inv'[i].pc = "done")
        => /\ \A k \in 1..Len(claimRows') : claimRows'[k].by # i
           /\ UNCHANGED <<cart_items, claimRows, cartShown>>

C26_SubmitIsOneStep == [][C26_SubmitStep]_vars

\* ------------------------------------------------------------- SpecUsers
\* the user-management tab, opened by the administrator or by a member
AdminOrMember == {[s \in Sessions |-> IF s = Browser THEN k ELSE "none"] :
                    k \in {"admin", "member"}}

NextUsers ==
  \/ UserManagement_Mount
  \/ \E i \in Ids : Remote_users_read(i)
  \/ \E i \in Ids : Remote_users_read_fails(i)
  \/ \E i \in Ids : UserManagement_fetchUsers_After(i)
  \/ \E r \in usersShown, c \in BOOLEAN : handleDeleteUser_Start(r, c)
  \/ \E i \in Ids : Remote_users_delete(i)
  \/ \E i \in Ids : Remote_users_delete_fails(i)
  \/ \E i \in Ids : handleDeleteUser_After(i)

InitUsers ==
  /\ InitCore(MaxUserOps, AdminOrMember)
  /\ InitPointsVars
  /\ InitShopVars
  /\ InitBorrowVars
  /\ InitEquipVars
  /\ InitViewVars(EmptyTables, <<>>)
  /\ RouterIdle /\ CountLoaded /\ CartClosed /\ BoardIdle
  /\ usersTable \in UserTables
  /\ usersShown = {}
  /\ usersLoading = TRUE

SpecUsers == InitUsers /\ [][NextUsers]_vars

\* C29: the displayed user list contains the administrator's row once a
\* fetch has succeeded, no displayed row of the administrator offers Delete
\* (its role is 'admin'), no delete is ever issued for the administrator's
\* id, and every delete issued was confirmed first.
FetchedUserList == \E i \in Ids : /\ inv[i].op = "UserManagement.fetchUsers"
                                  /\ inv[i].pc = "done" /\ inv[i].ans = <<"ok">>
C29_AdminNotDeletable ==
  /\ FetchedUserList => \E r \in usersShown : r.email = HardAdmin
  /\ \A r \in usersShown : r.email = HardAdmin => r.role = "admin"
  /\ \A i \in Ids : inv[i].op = "handleDeleteUser" =>
       \A k \in 1..Len(inv[i].calls) :
         /\ inv[i].calls[k].target # sessUid[Browser]
         /\ inv[i].via = "confirmed"

\* ------------------------------------------------------------- SpecBoard
\* the leaderboard loaded and refreshed over every small profiles relation
NextBoard ==
  \/ Leaderboard_fetchUsers_Start
  \/ \E i \in Ids : Remote_profiles_read(i)
  \/ \E i \in Ids : Remote_profiles_read_fails(i)
  \/ \E i \in Ids : Leaderboard_fetchUsers_After(i)

InitBoard ==
  /\ InitCore(MaxBoardOps, AdminOnly)
  /\ InitPointsVars
  /\ InitShopVars
  /\ InitBorrowVars
  /\ InitEquipVars
  /\ InitViewVars(EmptyTables, <<>>)
  /\ RouterIdle /\ CountLoaded /\ CartClosed /\ UsersIdle
  /\ profiles \in ProfileLists
  /\ board = <<>>
  /\ boardLoading = TRUE

SpecBoard == InitBoard /\ [][NextBoard]_vars

WellFormedRanking(b) ==
  /\ \A k, l \in 1..Len(b) : b[k].id = b[l].id => k = l
  /\ \A k \in 1..Len(b) : ~b[k].is_admin /\ b[k].rank = k
  /\ \A k, l \in 1..Len(b) : k < l => b[k].points >= b[l].points

BoardFetchEnds(i, from) ==
  inv[i].op = "Leaderboard.fetchUsers" /\ inv[i].pc = from /\ inv'[i].pc = "done"

\* C30: after a successful Leaderboard.fetchUsers the displayed users have
\* pairwise distinct ids, none is an is_admin row, their ranks are 1..n in
\* display order and points do not increase with rank; after a failed fetch
\* the displayed ranking is the previous one and loading is false.
C30_RankingStep ==
  \A i \in Ids :
    /\ BoardFetchEnds(i, "board_ok") => WellFormedRanking(board')
    /\ BoardFetchEnds(i, "board_err") => board' = board /\ boardLoading' = FALSE

NextRoute ==
  \/ \E e \in EnvValues : AuthResolved(e)
  \/ \E e \in Emails : SignIn(e)
  \/ SignOut
  \/ \E p \in Paths : Navigate(p)
  \/ FollowRedirect

InitRoute ==
  /\ InitCore(0, {[s \in Sessions |-> "none"]})
  /\ InitPointsVars
  /\ InitShopVars
  /\ InitBorrowVars
  /\ InitEquipVars
  /\ InitViewVars(EmptyTables, <<>>)
  /\ CountLoaded
  /\ CartClosed
  /\ UsersIdle /\ BoardIdle
  /\ viteAdminEmail \in EnvValues
  /\ nextAdminEmail \in EnvValues
  /\ authLoading = TRUE
  /\ authEmail = Undefined
  /\ location \in Paths
  /\ screen = Router(TRUE, Undefined, location, viteAdminEmail, nextAdminEmail)

SpecRoute == InitRoute /\ [][NextRoute]_vars

\* ------------------------------------------------------------- claims
InSeq(x, q) == \E k \in 1..Len(q) : q[k] = x
CallsOf(i, fn) == {k \in 1..Len(inv[i].calls) : inv[i].calls[k].fn = fn}
Writes(i) == {k \in 1..Len(inv[i].calls) : inv[i].calls[k].write}
IsAdjust(i) == inv[i].op \in {"addPoints", "handlePointChange"}

\* C1: a submitted point adjustment (u, v) issues add_points_to_user with
\* user_uuid = u and points_to_add = v, sign and magnitude unaltered, at most
\* once, and no adjustment call with another user or value; an administrator's
\* Leaderboard submission does issue it, and a non-administrator's issues none.
C1_ExactAdjustmentCall ==
  \A i \in Ids : IsAdjust(i) =>
    /\ Cardinality(CallsOf(i, "add_points_to_user")) <= 1
    /\ \A k \in CallsOf(i, "add_points_to_user") :
         /\ inv[i].calls[k].target = inv[i].reqTarget
         /\ inv[i].calls[k].val = inv[i].reqVal
    /\ inv[i].reqVal \in POINT_ADJUSTMENTS \cup pointButtons
    /\ (inv[i].op = "addPoints" /\ sessUser[inv[i].sess] = "admin")
         => CallsOf(i, "add_points_to_user") = {1}
    /\ sessUser[inv[i].sess] # "admin" => inv[i].calls = <<>>

C1_Witness ==
  \E i \in Ids :
    /\ inv[i].op = "addPoints" /\ inv[i].reqVal = -10 /\ inv[i].reqTarget = "u2"
    /\ inv[i].pc = "done" /\ InSeq(i, execOrder)
    /\ points["u2"] = StartBalance - 10

\* C8: concurrent adjustments of one user by two administrator sessions are
\* all applied by the backend (the balance is the initial balance plus every
\* adjustment whose call succeeded), and no client retries its call, withholds
\* it, or reports an error for an adjustment whose own call succeeded.
RECURSIVE SumApplied(_, _)
SumApplied(u, n) ==
  IF n = 0 THEN 0
  ELSE SumApplied(u, n - 1)
       + (IF inv[n].reqTarget = u /\ InSeq(n, execOrder) THEN inv[n].reqVal ELSE 0)

C8_NoLostAdjustment ==
  /\ \A u \in Users :
       Balance(points, u) = Balance(points0, u) + SumApplied(u, Len(inv))
  /\ \A i \in Ids : IsAdjust(i) =>
       /\ CallsOf(i, "add_points_to_user") = {1}
       /\ (InSeq(i, execOrder) => ~InSeq("error", inv[i].toast))

C8_Witness ==
  /\ Len(inv) >= 2
  /\ inv[1].sess # inv[2].sess
  /\ inv[1].reqTarget = "u2" /\ inv[2].reqTarget = "u2"
  /\ inv[1].pc = "done" /\ inv[2].pc = "done"
  /\ Len(execOrder) >= 2 /\ execOrder[1] = 2 /\ execOrder[2] = 1

\* C2: a purchase attempt made with no user signed in, or with a displayed
\* balance below the item's cost, issues no remote call at all, starts no
\* balance reload and leaves the displayed balance as it was; a
\* purchase_shop_item call is issued only when userPoints >= item.points_cost.
PurchaseBlocked(i) ==
  \/ sessUser[inv[i].sess] = "none"
  \/ inv[i].seen < inv[i].reqVal

C2_BlockedState ==
  \A i \in Ids : inv[i].op = "handlePurchase" =>
    /\ PurchaseBlocked(i) =>
         /\ inv[i].calls = <<>>
         /\ inv[i].pc = "done"
         /\ \A j \in Ids : inv[j].parent # i
    /\ CallsOf(i, "purchase_shop_item") # {} =>
         /\ ~PurchaseBlocked(i)
         /\ CallsOf(i, "purchase_shop_item") = {1}

C2_BlockedStep ==
  (Len(inv') > Len(inv) /\ inv'[Len(inv')].op = "handlePurchase")
     => userPoints' = userPoints

C2_InsufficientBalanceBlocked == []C2_BlockedState /\ [][C2_BlockedStep]_vars

C2_Witness ==
  \E i \in Ids :
    /\ inv[i].op = "handlePurchase"
    /\ sessUser[inv[i].sess] = "member"
    /\ inv[i].seen < inv[i].reqVal
    /\ Balance(points, sessUid[inv[i].sess]) >= inv[i].reqVal
    /\ inv[i].calls = <<>> /\ inv[i].toast = <<"error">>

\* C3 (as stated): once a successful toggleVisibility and the list reload it
\* requested have ended, the card shows the borrowing hidden exactly when
\* toggle_borrowing_visibility returned true.
ToggleDone(i) == inv[i].op = "toggleVisibility" /\ inv[i].pc = "done"
ToggleOk(i) == ToggleDone(i) /\ inv[i].ret # {}
Returned(i) == TRUE \in inv[i].ret
Children(i) == {j \in Ids : inv[j].parent = i}
Pos(x) == CHOOSE k \in 1..Len(execOrder) : execOrder[k] = x
NoToggleBetween(i, j) ==
  \A k \in (Pos(i) + 1)..(Pos(j) - 1) :
    ~(inv[execOrder[k]].op = "toggleVisibility" /\ inv[execOrder[k]].target = inv[i].target)

C3_DisplayMatchesReturn ==
  \A i \in Ids :
    (ToggleOk(i) /\ \A j \in Children(i) : inv[j].pc = "done")
      => (DisplayedHidden(inv[i].sess, inv[i].target) <=> Returned(i))

\* C3 (amended): a successful toggle shows the banner naming the returned state
\* and requests one reload of the list; a failed toggle shows the error banner
\* and requests none; the displayed rows change only when a reload succeeds,
\* to the rows that reload read, which carry the returned state when no other
\* toggle of the borrowing ran between the toggle and the reload's read.
C3_ToggleState ==
  \A i \in Ids : ToggleDone(i) =>
    /\ (inv[i].ret # {} /\ Returned(i)) => inv[i].toast = <<"now hidden">>
    /\ (inv[i].ret # {} /\ ~Returned(i)) => inv[i].toast = <<"now visible">>
    /\ inv[i].ret # {} => Cardinality(Children(i)) = 1
    /\ inv[i].ret = {} => (inv[i].toast = <<"error">> /\ Children(i) = {})
    /\ \A j \in Children(i) :
         (inv[j].ret # {} /\ NoToggleBetween(i, j))
           => <<inv[i].target, Returned(i)>> \in inv[j].ret

C3_DisplayStep ==
  \A s \in Sessions : borrowings'[s] # borrowings[s] =>
    \E j \in Ids :
      /\ inv[j].op = "fetchBorrowings" /\ inv[j].sess = s
      /\ inv[j].pc = "list_ok" /\ inv'[j].pc = "done"
      /\ borrowings'[s] = inv[j].ret

C3_ToggleThenReload == []C3_ToggleState /\ [][C3_DisplayStep]_vars

C3_Witness ==
  \E i \in Ids :
    /\ ToggleOk(i) /\ inv[i].target = "b1" /\ Returned(i)
    /\ \E j \in Children(i) : inv[j].pc = "done" /\ inv[j].ret # {}
    /\ DisplayedHidden(inv[i].sess, "b1")

\* ---- C10
IsLoad(i) == inv[i].op = "fetchEquipment"
Fn(i, k) == inv[i].calls[k].fn
Answered(i, k) == k <= Len(inv[i].ret)
ErrorsBefore(i, k) == \A j \in 1..(k - 1) : inv[i].ret[j] = "err"
ChainOrder ==
  <<"select equipment_stats", "load_equipment_for_client_v2", "simple_load_equipment",
    "fix_equipment_loading", "select equipment_stats">>

\* C10 as stated: within one load the calls follow the order primary query,
\* load_equipment_for_client_v2, simple_load_equipment, fix_equipment_loading,
\* re-query; each alternative comes only after every earlier call returned
\* an error; the chain stops at the first call that yields equipment.
C10_StrictChain ==
  \A i \in Ids : IsLoad(i) =>
    /\ Len(inv[i].calls) <= Len(ChainOrder)
    /\ \A k \in 1..Len(inv[i].calls) :
         /\ Fn(i, k) = ChainOrder[k]
         /\ k \in 2..4 => ErrorsBefore(i, k)
         /\ k = 5 => inv[i].ret[4] = "ok"
    /\ \A k \in 1..(Len(inv[i].calls) - 1) : inv[i].ret[k] # "rows"

\* C10 (amended): a load starts with the primary query;
\* load_equipment_for_client_v2 and simple_load_equipment are each issued
\* only after every earlier call returned an error; fix_equipment_loading is
\* issued either after those three calls all returned an error or directly
\* after a primary query that succeeded without rows; the one re-query is
\* issued only right after a successful fix_equipment_loading and ends the
\* load; no other call is repeated, and no call follows an answer with rows
\* or a load_equipment_for_client_v2 answer that is not an error.
C10_FallbackChain ==
  \A i \in Ids : IsLoad(i) =>
    LET n == Len(inv[i].calls) IN
    /\ Fn(i, 1) = "select equipment_stats"
    /\ Len(inv[i].ret) \in {n - 1, n}
    /\ \A k \in 2..n :
         /\ Fn(i, k) = "load_equipment_for_client_v2" => k = 2 /\ ErrorsBefore(i, k)
         /\ Fn(i, k) = "simple_load_equipment" =>
              k = 3 /\ Fn(i, 2) = "load_equipment_for_client_v2" /\ ErrorsBefore(i, k)
         /\ Fn(i, k) = "fix_equipment_loading" =>
              \/ k = 4 /\ Fn(i, 3) = "simple_load_equipment" /\ ErrorsBefore(i, k)
              \/ k = 2 /\ inv[i].ret[1] \in {"null", "empty"}
         /\ Fn(i, k) = "select equipment_stats" =>
              k = n /\ Fn(i, k - 1) = "fix_equipment_loading" /\ inv[i].ret[k - 1] = "ok"
    /\ \A f \in {"load_equipment_for_client_v2", "simple_load_equipment",
                  "fix_equipment_loading"} :
         Cardinality({k \in 1..n : Fn(i, k) = f}) <= 1
    /\ Cardinality({k \in 1..n : Fn(i, k) = "select equipment_stats"}) <= 2
    /\ \A k \in 1..(n - 1) :
         /\ inv[i].ret[k] # "rows"
         /\ Fn(i, k) = "load_equipment_for_client_v2" => inv[i].ret[k] = "err"
    /\ inv[i].pc = "done" =>
         (equipment[inv[i].sess][1] = i => inv[i].ret[n] \in {"rows", "empty"})

C10_Witness ==
  \E i, j \in Ids :
    /\ IsLoad(i) /\ inv[i].pc = "done" /\ inv[i].ret = <<"err", "err", "err", "ok", "rows">>
    /\ IsLoad(j) /\ inv[j].pc = "done" /\ inv[j].ret = <<"empty", "ok", "rows">>
    /\ equipment[inv[j].sess][1] \in {i, j}

\* ---- C5
ReadFailed(i) == inv[i].ans[1] = "err"
ReadRows(i) == IF inv[i].ret = {} THEN {} ELSE Unwrap(inv[i].ret)
SavesOf(i) == {j \in Ids : IsSave(j) /\ inv[j].parent = i}
GetDone(i) == IsGet(i) /\ inv[i].pc = "done"

\* C5 as stated: getAnnouncements / getEquipmentAsync return cached or default
\* data only when the remote read returned an error, and a read never writes
\* cached or default data to the remote store.
C5_CacheOnlyOnReadError ==
  \A i \in Ids : IsGet(i) =>
    /\ (inv[i].pc = "done" /\ inv[i].src = "cache") => ReadFailed(i)
    /\ \A j \in SavesOf(i) : Writes(j) = {}

\* C5 (amended): the rows read are returned when the remote read returns at
\* least one row; cached or default data is returned when the read failed or
\* returned no rows; after a failed read nothing is saved to the remote
\* store; a save of the cached or default list is started only after a read
\* that succeeded with no rows, and only when that list is not empty.
C5_CacheFallback ==
  \A i \in Ids : IsGet(i) =>
    /\ Len(inv[i].calls) = 1 /\ inv[i].calls[1] = selectRowsCall(inv[i].target)
    /\ inv[i].pc = "done" =>
         /\ inv[i].src = "remote" <=> (~ReadFailed(i) /\ ReadRows(i) # {})
         /\ inv[i].src = "cache" <=> (ReadFailed(i) \/ ReadRows(i) = {})
         /\ inv[i].src = "remote" => inv[i].data = ReadRows(i)
    /\ \A j \in SavesOf(i) :
         /\ ~ReadFailed(i) /\ ReadRows(i) = {}
         /\ inv[j].data # {}
         /\ inv[j].target = inv[i].target
         /\ \A k \in Writes(j) :
              inv[j].calls[k].fn \in {"upsert", "delete",
                                      "create_equipment_stats_table_if_not_exists"}

C5_Witness ==
  \E i, j \in Ids :
    /\ GetDone(i) /\ ~ReadFailed(i) /\ inv[i].src = "cache"
    /\ \E c \in SavesOf(i) : inv[c].pc = "ups_ok" \/ (inv[c].pc = "done" /\ Last(inv[c].ans) = "ok")
    /\ inv[i].data \subseteq remoteTable[inv[i].target]
    /\ GetDone(j) /\ ReadFailed(j) /\ inv[j].src = "cache" /\ SavesOf(j) = {}

\* ---- C4
ByEvent(i) == inv[i].via = "event"
Started == Len(inv') = Len(inv) + 1
Reads(i) == {k \in 1..Len(inv[i].calls) : ~inv[i].calls[k].write}

\* C4 as stated: the callback of a delivered change event issues no remote
\* re-read.
C4_NoRereadOnEvent == \A i \in Ids : ByEvent(i) => Reads(i) = {}

ReloadCall(i) ==
  CASE inv[i].chan \in {"announcements-changes", "admin-announcements-changes"} ->
         selectRowsCall("announcements")
    [] inv[i].chan = "equipment-changes" -> selectRowsCall("equipment_stats")
    [] inv[i].chan = "points-changes" -> fetchUserPointsArgs(inv[i].target)
    [] inv[i].chan = "claims-changes" ->
         Call("select claims_with_metadata", inv[i].target, 0, "approved", FALSE)

C4_CallbackState ==
  \A i \in Ids : ByEvent(i) =>
    IF inv[i].chan = "notifications_changes"
      THEN inv[i].calls = <<>> /\ inv[i].pc = "done"
      ELSE /\ inv[i].caller \in {"HomePage", "AnnouncementsConfigPage"}
           /\ Len(inv[i].calls) >= 1 /\ inv[i].calls[1] = ReloadCall(i)

Shown == <<listShown, notifications, homeUserPoints, borrowedItems>>

C4_CallbackStep ==
  /\ (Started /\ Last(inv').via = "event") =>
       IF Last(inv').chan = "notifications_changes"
         THEN /\ notifications' = <<[id |-> Last(inv').target, is_read |-> FALSE]>>
                                    \o notifications
              /\ UNCHANGED <<listShown, homeUserPoints, borrowedItems>>
         ELSE UNCHANGED Shown
  /\ \A c \in Components, k \in Kinds :
       (listShown'[c][k] # listShown[c][k] /\ mounted[c]) =>
         \E i \in Ids :
           /\ IsGet(i) /\ inv[i].caller = c /\ inv[i].pc # "done" /\ inv'[i].pc = "done"
           /\ k = inv[i].target => listShown'[c][k] = inv'[i].data

\* C4 (amended): the NotificationsCenter callback prepends the inserted row
\* to the list on screen and issues no remote call; every HomePage and
\* AnnouncementsConfigPage callback leaves the screen as it is and starts a
\* reload whose first remote call re-reads the relation of its channel
\* (announcements, equipment_stats, the user's balance, the user's approved
\* claims); a list on screen changes only when such a load returns.
C4_ReloadOnEvent == []C4_CallbackState /\ [][C4_CallbackStep]_vars

C4_Witness ==
  \E i \in Ids :
    /\ ByEvent(i) /\ GetDone(i) /\ inv[i].src = "remote"
    /\ StillMounted(i)
    /\ inv[i].caller = "HomePage"
    /\ DEFAULT_ANNOUNCEMENTS \subseteq listShown[inv[i].caller][inv[i].target]

\* ---- C9
Owned(c) == {ch \in channels : ch.owner = c}
OpenedInOneMount(c) == Cardinality(Opened(c, "u1", chanSeq))

C9_ChannelState ==
  /\ \A c \in Components :
       /\ ~mounted[c] => Owned(c) = {} /\ intervals[c] = 0
       /\ Cardinality(Owned(c)) <= OpenedInOneMount(c)
       /\ intervals[c] <= Cardinality({x \in {c} : x = "HomePage"})
  /\ \A e \in pending : ChanOf(e) # {}

C9_CallbackStep ==
  (Started /\ Last(inv').via = "event") =>
    /\ mounted[Last(inv').caller]
    /\ \E ch \in channels :
         /\ ch.owner = Last(inv').caller /\ ch.name = Last(inv').chan
         /\ ch.run = Last(inv').val /\ ch.run = cleanup[ch.owner]

C6_FailureSurfaced ==
  \A i \in Ids :
    inv[i].pc = "done" /\ InSeq("err", inv[i].ans)
      => InSeq("error", inv[i].toast) /\ ~InSeq("success", inv[i].toast)

\* ---- C7 ----
UiOps == {"handlePurchase", "addPoints", "handleUpdateStatus", "handleMarkAsRead",
          "handleMarkAllAsRead"}
WriteCalls(i) == SelectSeq(inv[i].calls, LAMBDA c : c.write)

\* C7 (as stated): one invocation of handlePurchase, addPoints,
\* handleUpdateStatus, handleMarkAsRead or handleMarkAllAsRead issues at most
\* one state-changing remote call.
C7_SingleCall ==
  \A i \in Ids : inv[i].op \in UiOps => Len(WriteCalls(i)) <= 1

OnlyCall(i, fn) ==
  /\ Len(WriteCalls(i)) <= 1
  /\ \A k \in 1..Len(WriteCalls(i)) : WriteCalls(i)[k].fn = fn

C7_CallsState ==
  \A i \in Ids :
    LET w == WriteCalls(i)
    IN /\ inv[i].op = "handlePurchase" => OnlyCall(i, "purchase_shop_item")
       /\ inv[i].op = "handleUpdateStatus"
            => OnlyCall(i, "update_claim_status_with_notification")
       /\ inv[i].op = "handleMarkAsRead"
            => /\ OnlyCall(i, "mark_notification_read")
               /\ \A k \in 1..Len(w) : w[k].target = inv[i].target
       /\ inv[i].op = "addPoints"
            => /\ Len(w) <= 2
               /\ Len(w) >= 1 => w[1].fn = "add_points_to_user"
               /\ Len(w) = 2 => /\ w[2].fn = "create_notification"
                                /\ w[2].target = w[1].target
       /\ inv[i].op = "handleMarkAllAsRead"
            => /\ Len(w) <= inv[i].seen
               /\ \A k \in 1..Len(w) : w[k].fn = "mark_notification_read"
               /\ \A k, l \in 1..Len(w) : w[k].target = w[l].target => k = l
               /\ inv[i].pc = "done"
                    => Len(w) = IF User(inv[i].sess) = Null THEN 0 ELSE inv[i].seen

\* the notification call of addPoints is issued only after add_points_to_user
\* succeeded; a mark-all issues its next call whatever the previous one returned
C7_CallsStep ==
  \A i \in Ids :
    /\ inv[i].op = "addPoints" /\ Len(WriteCalls(i)) = 1 /\ Len(WriteCalls(i)') = 2
         => inv[i].pc = "add_ok"
    /\ inv[i].op = "handleMarkAllAsRead" /\ Len(WriteCalls(i)') = Len(WriteCalls(i)) + 1
         => inv[i].pc \in {"mark_ok", "mark_err"}

\* C7 (amended): handlePurchase, handleUpdateStatus and
\* NotificationItem.handleMarkAsRead issue at most one state-changing call;
\* addPoints issues add_points_to_user and, only after it succeeded, a second
\* state-changing call create_notification for the same user;
\* handleMarkAllAsRead issues one mark_notification_read per notification
\* that was displayed unread when it started, one after another.
C7_CallsPerOperation == []C7_CallsState /\ [][C7_CallsStep]_vars

\* a mark-all over two unread notifications has finished with two calls
C7_Witness ==
  \E i \in Ids :
    /\ inv[i].op = "handleMarkAllAsRead"
    /\ inv[i].pc = "done"
    /\ inv[i].seen = 2
    /\ Len(WriteCalls(i)) = 2
    /\ InSeq("success", inv[i].toast)

\* ---- C11 ----
\* C11: points are non-negative: after any adjustments and purchases every
\* balance in the points relation is >= 0.
C11_NonNegativePoints ==
  \A u \in DOMAIN points : points[u] >= 0

\* ---- C12 ----
C12_StatusState ==
  \A c \in Claims : claimStatus[c] \in {"pending", "approved", "rejected"}

C12_StatusStep ==
  \A c \in Claims :
    claimStatus'[c] # claimStatus[c]
      => claimStatus[c] = "pending" /\ claimStatus'[c] \in {"approved", "rejected"}

\* C12: a claim's status is always pending, approved or rejected, and it
\* changes only from pending to approved or rejected; a claim already
\* approved or rejected is never changed again.
C12_ClaimLifecycle == []C12_StatusState /\ [][C12_StatusStep]_vars

\* ---- C13 ----
CartRows(u, it) ==
  {k \in 1..Len(cart_items) : cart_items[k].user_id = u /\ cart_items[k].item_id = it}
AddedOk(u, it) ==
  \E i \in Ids : /\ inv[i].op = "addToCart"
                 /\ inv[i].pc \in {"cart_ok", "done"}
                 /\ InSeq("ok", inv[i].ans)
                 /\ sessUid[inv[i].sess] = u /\ inv[i].target = it

\* C13: cart rows are unique: cart_items holds at most one row per
\* (user, item); after a successful addToCart of an item, however often it
\* was added, there is exactly one such row and its quantity is 1.
C13_CartRowsUnique ==
  \A u \in Users, it \in Items :
    /\ Cardinality(CartRows(u, it)) <= 1
    /\ AddedOk(u, it) <=> Cardinality(CartRows(u, it)) = 1
    /\ \A k \in CartRows(u, it) : cart_items[k].quantity = 1

\* the same item was added twice by the same user, both times successfully
C13_Witness ==
  \E i, j \in Ids :
    /\ i # j
    /\ inv[i].op = "addToCart" /\ inv[j].op = "addToCart"
    /\ inv[i].pc = "done" /\ inv[j].pc = "done"
    /\ InSeq("ok", inv[i].ans) /\ InSeq("ok", inv[j].ans)
    /\ inv[i].sess = inv[j].sess /\ inv[i].target = inv[j].target
    /\ Len(cart_items) = 1

\* ---- C14 ----
\* C14: every live points, claims or notifications subscription carries a
\* filter equal to the id of the signed-in user; none exists while no user
\* is signed in.
C14_SubscriptionsFiltered ==
  \A ch \in channels :
    ch.table \in {"points", "claims", "notifications"}
      => User(Browser) # Null /\ ch.filter = User(Browser)

\* ---- C15 ----
Config == "AnnouncementsConfigPage"
\* invocation i wrote the cache key of kind k
WroteCache(i, k) ==
  /\ IsGet(i) /\ inv[i].target = k
  /\ \/ inv[i].pc = "syncing"
     \/ SavesOf(i) # {}
     \/ inv[i].pc = "done" /\ inv[i].src = "remote" /\ k = "equipment_stats"
\* invocation i read the cache key of kind k
ReadCache(i, k) ==
  /\ IsGet(i) /\ inv[i].pc = "done"
  /\ \/ inv[i].target = k /\ inv[i].src = "cache"
     \/ inv[i].caller = Config /\ inv[i].via = "effect" /\ k = "equipment_stats"
CacheWriters(k) == {inv[i].caller : i \in {j \in Ids : WroteCache(j, k)}}
CacheReaders(k) == {inv[i].caller : i \in {j \in Ids : ReadCache(j, k)}}

Returns(i) == inv[i].pc # "done" /\ inv'[i].pc = "done"

C15_CacheStep ==
  /\ \A c \in Components :
       listShown'[c] # listShown[c]
         => \/ ~mounted[c] /\ mounted'[c]
            \/ \E i \in Ids : inv[i].caller = c /\ StillMounted(i) /\ Returns(i)
  /\ \A i \in Ids :
       IsGet(i) /\ inv[i].caller = Config /\ inv[i].via = "effect"
       /\ StillMounted(i) /\ Returns(i)
         => listShown'[Config]["equipment_stats"] =
              IF localStorage["equipment_stats"] # {}
                THEN Unwrap(localStorage["equipment_stats"]) ELSE DEFAULT_EQUIPMENT
  /\ \A k \in Kinds :
       localStorage'[k] # localStorage[k]
         => \E i \in Ids : IsGet(i) /\ inv[i].target = k /\ inv[i].pc \in {"read_ok", "read_err"}
                            /\ inv'[i].pc \in {"done", "syncing"}

C16_AdminChecksAgree ==
  screen.kind = "page" /\ authEmail # Undefined /\ screen.admin \in {"yes", "no"}
    => screen.admin = YesNo(GuardIsAdmin(authEmail, viteAdminEmail))

\* ---- C17 ----
\* C17: while auth is loading the Router produces neither a page nor a
\* redirect; afterwards, on every page route other than /auth, a page is
\* mounted only for a signed-in user (an admin-only page only for the
\* administrator), an unauthenticated visitor is redirected to /auth and a
\* signed-in non-administrator on an admin-only route is redirected to /.
C17_PagesReserved ==
  /\ authLoading => screen = Spinner
  /\ ~authLoading /\ location \in PageRoutes
       => /\ screen.kind = "page"
               => /\ authEmail # Undefined
                  /\ location \in AdminRoutes => GuardIsAdmin(authEmail, viteAdminEmail)
          /\ authEmail = Undefined => screen = RedirectTo("/auth")
          /\ authEmail # Undefined /\ location \in AdminRoutes
             /\ ~GuardIsAdmin(authEmail, viteAdminEmail)
               => screen = RedirectTo("/")

\* ---- C18 ----
\* the notifications handed to the NotificationsCenter now on screen, by a
\* finished fetch or by a realtime INSERT
HandedOver ==
  {inv[i].target : i \in {j \in Ids : /\ inv[j].op = "NotificationsCenter.onInsert"
                                       /\ StillMounted(j)}}
  \cup UNION {{Unwrap(inv[i].ret)[k].id : k \in 1..Len(Unwrap(inv[i].ret))} :
                i \in {j \in Ids : /\ inv[j].op = "fetchNotifications"
                                    /\ inv[j].pc = "done" /\ inv[j].ret # {}
                                    /\ StillMounted(j)}}

\* C18: the list NotificationsCenter displays holds each notification id at
\* most once and holds every notification a fetch or a realtime INSERT
\* handed to it.
C18_EachNotificationOnce ==
  mounted[Center]
    => /\ \A a, b \in 1..Len(notifications) :
            notifications[a].id = notifications[b].id => a = b
       /\ HandedOver \subseteq ShownIds

\* ---- C19 ----
ReadRemotely(n) == \E k \in 1..Len(notifTable) : notifTable[k].id = n /\ notifTable[k].is_read
ReadLocally(n) == \E k \in 1..Len(notifications) : notifications[k].id = n /\ notifications[k].is_read

\* C19: once a handleMarkAllAsRead has completed, every notification the
\* NotificationsCenter displays as read is marked read in the remote
\* notifications relation.
C19_LocalReadIsRemoteRead ==
  (\E i \in Ids : /\ inv[i].op = "handleMarkAllAsRead" /\ inv[i].pc = "done"
                  /\ inv[i].calls # <<>> /\ StillMounted(i))
    => \A n \in ShownIds : ReadLocally(n) => ReadRemotely(n)

\* ---- C20 ----
\* the announcements whose removeAnnouncement has reported success
RemovedOk == {inv[i].target : i \in {j \in Ids : /\ inv[j].op = "removeAnnouncement"
                                                 /\ inv[j].pc = "done"
                                                 /\ \A k \in Ids :
                                                      inv[k].op = "addAnnouncement" => k < j}}

\* C20: an announcement whose removeAnnouncement has succeeded is not in the
\* remote announcements relation (SpecRemove has no operation that adds one).
C20_RemovedStaysRemoved == RemovedOk \cap remoteTable["announcements"] = {}

\* ---- C21 ----
\* the reload that ends a failed addAnnouncement / removeAnnouncement returns
RevertEnds(i, j) ==
  /\ inv[i].op \in {"addAnnouncement", "removeAnnouncement"}
  /\ inv[i].pc = "failed"
  /\ IsGet(j) /\ inv[j].parent = i /\ Returns(j)
  /\ StillMounted(i)

C21_RevertStep ==
  \A i, j \in Ids :
    RevertEnds(i, j)
      => /\ InSeq("error", inv[i].toast)
         /\ inv[i].op = "addAnnouncement"
              => inv[i].target \notin listShown'[Config]["announcements"]
         /\ inv[i].op = "removeAnnouncement"
              => inv[i].target \in listShown'[Config]["announcements"]

\* C21: when the save of addAnnouncement or removeAnnouncement fails, an
\* error banner is shown and, once the operation has completed, the displayed
\* list does not hold the announcement that failed to be added, and holds
\* the one that failed to be removed.
C21_FailedUpdateReverted == [][C21_RevertStep]_vars

\* ---- C22 ----
Tried(i, f) == \E k \in 1..Len(inv[i].calls) : Fn(i, k) = f
LoadsInFlight(s) == {j \in Ids : IsLoad(j) /\ inv[j].sess = s /\ inv[j].pc # "done"}

\* C22: when the primary query returned an error, the failure banner of
\* fetchEquipment is shown only after every alternative was attempted and
\* none yielded equipment; when a load has finished and no other load of the
\* page is running, the loading flag is false.
C22_AlternativesTried ==
  \A i \in Ids : IsLoad(i) /\ inv[i].pc = "done" =>
    /\ (inv[i].ret[1] = "err" /\ InSeq("error", inv[i].toast))
         => /\ Tried(i, "load_equipment_for_client_v2")
            /\ Tried(i, "simple_load_equipment")
            /\ Tried(i, "fix_equipment_loading")
            /\ \A k \in 1..Len(inv[i].ret) : inv[i].ret[k] # "rows"
            /\ inv[i].ret[4] = "ok" => Len(inv[i].calls) = 5
    /\ LoadsInFlight(inv[i].sess) = {} => ~eqLoading[inv[i].sess]

\* ---- C23 ----
\* the add_points_to_user call of invocation i has not settled
AdjustmentInFlight(i) == inv[i].op = "addPoints" /\ inv[i].pc = "add_sent"

\* C23: while the call of a point adjustment for user u is in flight in a
\* session, the buttons of u's row are disabled there
\* (loadingPointChange = u), whatever is started or finishes for other
\* rows; with no adjustment running in a session no row is disabled.
C23_RowDisabledInFlight ==
  /\ \A i \in Ids : AdjustmentInFlight(i) => loadingPointChange[inv[i].sess] = inv[i].target
  /\ \A s \in Sessions :
       (\A i \in Ids : inv[i].op = "addPoints" /\ inv[i].sess = s => inv[i].pc = "done")
         => loadingPointChange[s] = Null

\* ---- C24 ----
CountClicks == {i \in Ids : inv[i].op = "handleUpdateEquipmentCount"}
Plus == {i \in CountClicks : inv[i].reqVal = 1}
Minus == {i \in CountClicks : inv[i].reqVal = -1}

\* C24: once every click on '+' and '-' has been carried out successfully
\* and no '-' was clicked on a displayed zero, the remote count is the
\* initial count plus the '+' clicks minus the '-' clicks; the count sent is
\* never negative.
C24_CountStepsKept ==
  /\ \A i \in CountClicks : Last(inv[i].calls).val >= 0
  /\ (/\ \A i \in CountClicks : inv[i].pc = "done" /\ inv[i].ans = <<"ok">>
      /\ \A i \in Minus : inv[i].seen > 0)
       => itemCount = Max0(StartCount + Cardinality(Plus) - Cardinality(Minus))

\* ---- C25 ----
HomeFetches == {i \in Ids : inv[i].op = "HomePage.fetchUserPoints" /\ StillMounted(i)}

\* nothing is on its way: every points event was delivered, every balance
\* load of the HomePage on screen has returned, and none of them failed
BalanceQuiet ==
  /\ mounted["HomePage"] /\ User(Browser) # Null
  /\ \A e \in pending : e.table # "points"
  /\ HomeFetches # {}
  /\ \A i \in HomeFetches : inv[i].pc = "done" /\ inv[i].ans = <<>>
  /\ \A i \in HomeFetches : inv[i].target = User(Browser)

\* C25: with the remote balance at rest, all points events delivered and no
\* fetch_user_points call in flight, the balance HomePage displays is the
\* remote balance, in whatever order overlapping answers arrived.
C25_BalanceConverges ==
  BalanceQuiet => homeUserPoints = Balance(points, User(Browser))

\* ------------------------------------------------------------- C27
Adjusted(i) == InSeq(i, execOrder)       \* add_points_to_user succeeded for i
NotifCalls(i) == CallsOf(i, "create_notification")

\* C27: in Leaderboard.addPoints a create_notification call is issued only
\* after the add_points_to_user call succeeded, for the same user, at most
\* once and exactly once when the handler has finished, with type success
\* for a positive and error for a negative adjustment; a failed adjustment
\* issues none; a failed notification call still ends in the Success banner
\* and the leaderboard refresh.
C27_NotificationFollowsSuccess ==
  \A i \in Ids : inv[i].op = "addPoints" =>
    /\ \A k \in NotifCalls(i) :
         /\ Adjusted(i)
         /\ \E j \in CallsOf(i, "add_points_to_user") : j < k
         /\ inv[i].calls[k].target = inv[i].target
         /\ inv[i].val > 0 => inv[i].calls[k].kind = "success"
         /\ inv[i].val < 0 => inv[i].calls[k].kind = "error"
    /\ Cardinality(NotifCalls(i)) <= 1
    /\ inv[i].pc = "done" /\ Adjusted(i) =>
         /\ Cardinality(NotifCalls(i)) = 1
         /\ inv[i].toast = <<"success">>
         /\ CallsOf(i, "select profiles_with_points") # {}
    /\ inv[i].pc \in {"add_err", "done"} /\ ~Adjusted(i) => NotifCalls(i) = {}

\* a deduction succeeded, its notification call failed, the handler finished
C27_Witness ==
  \E i \in Ids :
    /\ inv[i].op = "addPoints" /\ inv[i].pc = "done"
    /\ inv[i].val < 0
    /\ Adjusted(i)
    /\ InSeq("err", inv[i].ans)
    /\ \E j \in Ids : inv[j].op = "addPoints" /\ inv[j].pc = "done" /\ inv[j].toast = <<"error">>

\* ------------------------------------------------------------- C28
\* the saveAnnouncements calls that resolve, and that reject, in this step
Resolving == {i \in Ids : inv[i].op = "saveAnnouncements" /\ inv[i].pc # "done"
                          /\ inv'[i].pc = "done"}
Rejecting == {i \in Ids : inv[i].op = "saveAnnouncements" /\ inv[i].pc # "failed"
                          /\ inv'[i].pc = "failed"}

\* C28: when saveAnnouncements(L) resolves, the ids of the remote
\* announcements relation are the ids of L and the local cache holds L; when
\* it rejects, the local cache is what it was before the call.
C28_SaveStep ==
  /\ \A i \in Resolving :
       /\ remoteTable'["announcements"] = inv[i].data
       /\ localStorage'["announcements"] = {inv[i].data}
  /\ \A i \in Rejecting : localStorage'["announcements"] = inv[i].seen

C28_ResolvedSaveMatches == [][C28_SaveStep]_vars

====
